---- MODULE Spec2Model ----
(***************************************************************************)
(* Product AI Creator: the provider failover (services/ai/index.ts), the   *)
(* Vision, Content and Validation stages and the pipeline orchestrator     *)
(* (services/pipeline).                                                    *)
(*                                                                         *)
(* One invocation is modelled step by step, one action per stretch of code *)
(* between two awaits.  The upstream answers (image fetch, each adapter    *)
(* call) are chosen by the environment when the awaited call ends.         *)
(*                                                                         *)
(* `run` is the invocation under study.  `ref` is the same invocation fed  *)
(* the same upstream answers with no onProgress observer; claims that      *)
(* compare two runs are stated over the pair.                              *)
(***************************************************************************)
EXTENDS Integers, Sequences, FiniteSets, TLC

VARIABLES
    env,        \* provider types whose API key is present in process.env
    adapters,   \* keys of the module-level `adapters` Map (memoized instances)
    constructed, \* per provider type, how many adapter instances were made
    input,      \* PipelineInput
    options,    \* PipelineOptions without onProgress
    run,        \* locals of the invocation, with options.onProgress
    ref         \* locals of the same invocation without an observer

vars == <<env, adapters, constructed, input, options, run, ref>>

-----------------------------------------------------------------------------
(* Bounds of the model *)

\* how many images a PipelineInput carries at most
MaxImages == 2

-----------------------------------------------------------------------------
(* JavaScript values.  A number is the ratio n/d with d > 0 (Num(50) is   *)
(* 0.5).  A string carries its length, so that a text too long to write   *)
(* out is a tag and a length.  The elements of an array are strings.      *)

Undef == [t |-> "undefined"]
Null == [t |-> "null"]
Str(s) == [t |-> "string", v |-> s, len |-> Len(s)]
Ratio(n, d) == [t |-> "number", n |-> n, d |-> d]
Num(n) == Ratio(n, 100)
Bool(b) == [t |-> "boolean", v |-> b]
Arr(a) == [t |-> "array", v |-> a]
Obj(f) == [t |-> "object", v |-> f]

\* ToBoolean, as `x || y` and `if (x)` apply it
Truthy(x) ==
    CASE x.t = "undefined" -> FALSE
      [] x.t = "null" -> FALSE
      [] x.t = "string" -> x.len # 0
      [] x.t = "number" -> x.n # 0
      [] x.t = "boolean" -> x.v
      [] OTHER -> TRUE

\* x || y
Or(x, y) == IF Truthy(x) THEN x ELSE y

\* `v.f`.  Reading a property of null throws a TypeError (CanGet is FALSE);
\* no parsed value carries one of the fields read here on its prototype.
CanGet(v) == v.t \notin {"null", "undefined"}
Get(v, f) == IF v.t = "object" /\ f \in DOMAIN v.v THEN v.v[f] ELSE Undef

IsArray(x) == x.t = "array"
\* typeof x === 'object' is true of objects, arrays and null
TypeofObject(x) == x.t \in {"object", "array", "null"}

-----------------------------------------------------------------------------
(* Provider answers.  A text is its payload and how the payload is wrapped: *)
(*   bare    the text is the payload and nothing else                       *)
(*   fenced  the payload stands in a ``` or ```json block                   *)
(*   prose   the payload has prose (no braces, no fences) around it         *)
(* The payload is a JSON value, or Garbage: characters that are no JSON.    *)

Garbage == [t |-> "garbage"]
Wraps == {"bare", "fenced", "prose"}
Text(w, b) == [wrap |-> w, body |-> b]

\* lib/utils extractJsonFromMarkdown: the content of the first code block,
\* else the span from the first { or [ to the last } or ], else the text
extractJsonFromMarkdown(text) ==
    IF text.wrap = "fenced" THEN Text("bare", text.body)
    ELSE IF text.wrap = "prose" /\ text.body.t \in {"object", "array"}
         THEN Text("bare", text.body)
    ELSE text

\* lib/utils safeJsonParse: JSON.parse, the fallback when it throws
safeJsonParse(json, fallback) ==
    IF json.wrap = "bare" /\ json.body # Garbage THEN json.body ELSE fallback

-----------------------------------------------------------------------------
(* Provider registry: services/ai/adapters/index.ts, services/ai/index.ts *)

DEFAULT_PROVIDER_CONFIGS ==
    [groq       |-> [priority |-> 1, supportsVision |-> FALSE],
     cerebras   |-> [priority |-> 2, supportsVision |-> FALSE],
     google     |-> [priority |-> 3, supportsVision |-> TRUE],
     mistral    |-> [priority |-> 4, supportsVision |-> FALSE],
     deepseek   |-> [priority |-> 5, supportsVision |-> FALSE],
     openrouter |-> [priority |-> 6, supportsVision |-> FALSE]]

ProviderType == DOMAIN DEFAULT_PROVIDER_CONFIGS

RECURSIVE SortByPriority(_)
SortByPriority(S) ==
    IF S = {} THEN <<>>
    ELSE LET m == CHOOSE t \in S : \A u \in S :
                     DEFAULT_PROVIDER_CONFIGS[t].priority
                         <= DEFAULT_PROVIDER_CONFIGS[u].priority
         IN <<m>> \o SortByPriority(S \ {m})

\* sorted the other way round: b.priority - a.priority
getProvidersByPriority_descending ==
    LET sorted == SortByPriority(ProviderType)
    IN [k \in 1..Len(sorted) |-> sorted[Len(sorted) + 1 - k]]

getProvidersByPriority == SortByPriority(ProviderType)

\* getAdapter(type) is not null: the memoized instance, or a new one when
\* the provider's API key is set
\* an adapter is made whether the provider's API key is set or not
getAdapter_ignoresKey(type) == TRUE
getAdapter(type) == type \in adapters \/ type \in env

\* the Map after getAdapter has been asked for every provider type
adaptersAfterLookup == adapters \cup {t \in ProviderType : getAdapter(t)}

\* getAdapter(type) makes an instance at every call for a provider with a
\* key: the Map is not asked first
constructs_always(type) == type \in env

\* getAdapter(type) reaches `new ...Adapter({ apiKey })`: the Map has no
\* instance of the type and its API key is set
constructs(type) == type \notin adapters /\ type \in env

NoneConstructed == [t \in ProviderType |-> 0]

\* the instances made once getAdapter has been asked for every provider
\* type; the Map then holds, for a type, the instance made last
constructedAfterLookup ==
    [t \in ProviderType |-> constructed[t] + (IF constructs(t) THEN 1 ELSE 0)]

\* the adapter of each { type, adapter } of the list, as the number of the
\* instance among those made for its type
InstancesOf(list) == [k \in 1..Len(list) |-> constructedAfterLookup[list[k]]]

getAvailableAdapters == SelectSeq(getProvidersByPriority, getAdapter)

\* BaseAdapter.supportsVision is false; GoogleAIAdapter overrides it
supportsVision(type) == type = "google"

getVisionAdapters == SelectSeq(getAvailableAdapters, supportsVision)

-----------------------------------------------------------------------------
(* Errors.  A message is a string. *)

Error(message) == [isError |-> TRUE, message |-> message]

\* error instanceof Error ? error.message : 'Unknown error'
errorMsg(e) == IF e.isError THEN e.message ELSE "Unknown error"

\* array.join(sep)
RECURSIVE Join(_, _)
Join(a, sep) ==
    IF Len(a) = 0 THEN ""
    ELSE IF Len(a) = 1 THEN a[1]
    ELSE a[1] \o sep \o Join(Tail(a), sep)

\* what an adapter call throws, by failure class
FailClasses == {"rate_limit", "quota", "transport", "malformed"}
AdapterError(class) ==
    CASE class = "rate_limit" -> Error("API error: 429 - Too Many Requests")
      [] class = "quota" -> Error("API error: 402 - insufficient_quota")
      [] class = "transport" -> Error("This operation was aborted")
      [] class = "malformed" -> Error("Invalid response format")

-----------------------------------------------------------------------------
(* Failover: generateContent and analyzeImages of services/ai/index.ts.    *)
(* A call is the record                                                    *)
(*   state   idle, attempting (list[i] is in flight), returned, thrown     *)
(*   list    the adapters of the capability, in the order of iteration     *)
(*   instances  for each adapter of the list, which instance it is         *)
(*   wire    the transport of the adapter call in flight: none, waiting    *)
(*           (fetch pending, timer armed), body (response being read)      *)
(*   upstream  what the provider does with the request in flight           *)
(*   errors  the `errors` array                                            *)
(*   calls   every adapter call made, with how it ended: what it returned  *)
(*           or the message of what it threw (history)                     *)

IdleCall ==
    [state |-> "idle", cap |-> "none", list |-> <<>>, instances |-> <<>>,
     i |-> 0, errors |-> <<>>, calls |-> <<>>, result |-> Undef, error |-> Undef,
     wire |-> "none", upstream |-> "none"]

NoProvidersMessage(cap) ==
    IF cap = "vision"
    THEN "No vision-capable AI providers configured. Add GOOGLE_AI_API_KEY to .env"
    ELSE "No AI providers configured. Check your API keys in .env"

AllFailedHeader(cap) ==
    IF cap = "vision" THEN "All vision providers failed:"
    ELSE "All AI providers failed:"

\* without the check of the empty list: the loop runs over nothing and the
\* aggregate error is thrown
BeginCall_noEmptyCheck(cap, list) ==
    IF Len(list) = 0
    THEN [IdleCall EXCEPT !.state = "thrown", !.cap = cap,
                          !.error = Error(AllFailedHeader(cap) \o "\n")]
    ELSE [IdleCall EXCEPT !.state = "attempting", !.cap = cap, !.list = list,
                          !.i = 1]

\* the call up to its first await
BeginCall(cap, list) ==
    IF Len(list) = 0
    THEN [IdleCall EXCEPT !.state = "thrown", !.cap = cap,
                          !.error = Error(NoProvidersMessage(cap))]
    ELSE [IdleCall EXCEPT !.state = "attempting", !.cap = cap, !.list = list,
                          !.i = 1]

\* the adapter in flight resolves: return result
\* a success does not end the loop: the next adapter is called as well
AttemptSucceeds_goesOn(fo, content) ==
    LET log == Append(fo.calls, [provider |-> fo.list[fo.i], ok |-> TRUE,
                                 message |-> "", content |-> content])
    IN IF fo.i < Len(fo.list)
       THEN [fo EXCEPT !.i = @ + 1, !.calls = log]
       ELSE [fo EXCEPT !.state = "returned", !.calls = log,
                       !.result = [content |-> content, provider |-> fo.list[fo.i]]]
AttemptSucceeds(fo, content) ==
    [fo EXCEPT !.state = "returned",
               !.result = [content |-> content, provider |-> fo.list[fo.i]],
               !.calls = Append(@, [provider |-> fo.list[fo.i], ok |-> TRUE,
                                    message |-> "", content |-> content])]

\* a rate limit is rethrown instead of being recorded: the loop is left
AttemptFails_rethrowsRateLimit(fo, e) ==
    LET type == fo.list[fo.i]
        errs == Append(fo.errors, type \o ": " \o errorMsg(e))
        log == Append(fo.calls, [provider |-> type, ok |-> FALSE,
                                 message |-> errorMsg(e), content |-> Undef])
    IN IF fo.i < Len(fo.list) /\ e # AdapterError("rate_limit")
       THEN [fo EXCEPT !.i = @ + 1, !.errors = errs, !.calls = log]
       ELSE [fo EXCEPT !.state = "thrown", !.errors = errs, !.calls = log,
                       !.error = Error(AllFailedHeader(fo.cap) \o "\n"
                                           \o Join(errs, "\n"))]

\* the last error replaces the earlier ones instead of being pushed
AttemptFails_keepsLastError(fo, e) ==
    LET type == fo.list[fo.i]
        errs == <<type \o ": " \o errorMsg(e)>>
        log == Append(fo.calls, [provider |-> type, ok |-> FALSE,
                                 message |-> errorMsg(e), content |-> Undef])
    IN IF fo.i < Len(fo.list)
       THEN [fo EXCEPT !.i = @ + 1, !.errors = errs, !.calls = log]
       ELSE [fo EXCEPT !.state = "thrown", !.errors = errs, !.calls = log,
                       !.error = Error(AllFailedHeader(fo.cap) \o "\n"
                                           \o Join(errs, "\n"))]

\* the adapter in flight rejects: errors.push, then the next adapter, or
\* the aggregate error when the loop ends
AttemptFails(fo, e) ==
    LET type == fo.list[fo.i]
        errs == Append(fo.errors, type \o ": " \o errorMsg(e))
        log == Append(fo.calls, [provider |-> type, ok |-> FALSE,
                                 message |-> errorMsg(e), content |-> Undef])
    IN IF fo.i < Len(fo.list)
       THEN [fo EXCEPT !.i = @ + 1, !.errors = errs, !.calls = log]
       ELSE [fo EXCEPT !.state = "thrown", !.errors = errs, !.calls = log,
                       !.error = Error(AllFailedHeader(fo.cap) \o "\n"
                                           \o Join(errs, "\n"))]

-----------------------------------------------------------------------------
(* Stage results: StageResult<T> of types/pipeline.ts, without durationMs *)

StageResult(status) == [status |-> status, data |-> Undef, error |-> Undef]
Completed(data) == [status |-> "completed", data |-> data, error |-> Undef]
Failed(message) == [status |-> "failed", data |-> Undef, error |-> Str(message)]

\* `${x}` for the values interpolated here; a number prints as its ratio
toString(x) ==
    CASE x.t = "string" -> x.v
      [] x.t = "number" -> ToString(x.n) \o "/" \o ToString(x.d)
      [] x.t = "boolean" -> IF x.v THEN "true" ELSE "false"
      [] x.t = "array" -> Join(x.v, ",")
      [] x.t = "object" -> "[object Object]"
      [] OTHER -> x.t

\* `${a} ${b}`.trim(), for a and b without outer white space
TrimJoin(a, b) == IF a = "" THEN b ELSE IF b = "" THEN a ELSE a \o " " \o b

EmptyObject == Obj([f \in {} |-> Undef])

TypeErrorMessage == "Cannot read properties of null"
NotAFunctionMessage == "is not a function"

\* text.slice(0, n): an over-long text is cut to a text of length n
Slice(text, n) ==
    IF text.len <= n THEN text
    ELSE [t |-> "string", v |-> text.v \o "[0," \o ToString(n) \o ")", len |-> n]

-----------------------------------------------------------------------------
(* Vision stage: services/pipeline/vision-stage.ts *)

isValidCondition(value) ==
    value.t = "string" /\ value.v \in {"new", "used", "refurbished"}

\* Math.max(0, c): the upper limit is left out
Clamp01_noUpperLimit(c) == IF c.n < 0 THEN Num(0) ELSE c

\* Math.max(0, Math.min(1, c))
Clamp01(c) == IF c.n < 0 THEN Num(0) ELSE IF c.n > c.d THEN Num(100) ELSE c

ArrayOr(x, fallback) == IF IsArray(x) THEN x ELSE fallback

\* lines 35-36
VisionParsed(content) ==
    safeJsonParse(extractJsonFromMarkdown(content), EmptyObject)

\* lines 39-55
VisionAnalysisOf(content) ==
    LET parsed == VisionParsed(content)
        c == Get(parsed, "confidence")
    IN [productType |-> Or(Get(parsed, "productType"), Str("Unknown Product")),
        detectedBrand |-> Or(Get(parsed, "detectedBrand"), Undef),
        detectedModel |-> Or(Get(parsed, "detectedModel"), Undef),
        colors |-> ArrayOr(Get(parsed, "colors"), Arr(<<>>)),
        materials |-> ArrayOr(Get(parsed, "materials"), Arr(<<>>)),
        style |-> Or(Get(parsed, "style"), Undef),
        condition |-> IF isValidCondition(Get(parsed, "condition"))
                      THEN Get(parsed, "condition") ELSE Undef,
        features |-> ArrayOr(Get(parsed, "features"), Arr(<<>>)),
        suggestedCategories |->
            ArrayOr(Get(parsed, "suggestedCategories"), Arr(<<>>)),
        confidence |-> IF c.t = "number" THEN Clamp01(c) ELSE Num(50),
        rawResponse |-> content]

\* runVisionStage, from the end of the analyzeImages call `fo`
runVisionStage(fo) ==
    IF fo.state = "thrown"
    THEN Failed("Vision analysis failed: " \o errorMsg(fo.error))
    ELSE IF ~CanGet(VisionParsed(fo.result.content))
    THEN Failed("Vision analysis failed: " \o TypeErrorMessage)
    ELSE Completed(VisionAnalysisOf(fo.result.content))

-----------------------------------------------------------------------------
(* Content stage: services/pipeline/content-stage.ts *)

\* strings of the model that hold a <p> or <ul> tag
HtmlTexts == {"<p>A sturdy chair.</p>"}

\* formatAsHtml, of a string without blank lines
formatAsHtml(text) ==
    IF text.len = 0 THEN Str("")
    ELSE IF text.v \in HtmlTexts THEN text
    ELSE Str("<p>" \o text.v \o "</p>")

\* colors.slice(1)
Rest(a) == IF Len(a) = 0 THEN <<>> ELSE Tail(a)

conditionMap == [new |-> "Nowy", used |-> "Uzywany", refurbished |-> "Odnowiony"]

\* attrs[key] = value, under the condition of the `if`
Attr(cond, key, value) == IF cond THEN (key :> value) ELSE EmptyObject.v

\* the brand is left out
buildDefaultAttributes_withoutBrand(vision) ==
    Obj(Attr(Len(vision.colors.v) > 0, "Kolor",
             Str(IF Len(vision.colors.v) > 0 THEN vision.colors.v[1] ELSE ""))
        @@ Attr(Len(vision.colors.v) > 1, "Kolory dodatkowe",
                Str(Join(Rest(vision.colors.v), ", ")))
        @@ Attr(Len(vision.materials.v) > 0, "Material",
                Str(Join(vision.materials.v, ", ")))
        @@ Attr(Truthy(vision.style), "Styl", vision.style)
        @@ Attr(Truthy(vision.condition), "Stan",
                Str(IF Truthy(vision.condition)
                    THEN conditionMap[vision.condition.v] ELSE "")))

buildDefaultAttributes(vision) ==
    Obj(Attr(Len(vision.colors.v) > 0, "Kolor",
             Str(IF Len(vision.colors.v) > 0 THEN vision.colors.v[1] ELSE ""))
        @@ Attr(Len(vision.colors.v) > 1, "Kolory dodatkowe",
                Str(Join(Rest(vision.colors.v), ", ")))
        @@ Attr(Len(vision.materials.v) > 0, "Material",
                Str(Join(vision.materials.v, ", ")))
        @@ Attr(Truthy(vision.style), "Styl", vision.style)
        @@ Attr(Truthy(vision.detectedBrand), "Marka", vision.detectedBrand)
        @@ Attr(Truthy(vision.condition), "Stan",
                Str(IF Truthy(vision.condition)
                    THEN conditionMap[vision.condition.v] ELSE "")))

\* the alt text of image i (from 0)
DefaultImageAlt(i, productName) ==
    CASE i = 0 -> productName \o " - widok glowny"
      [] i = 1 -> productName \o " - widok z boku"
      [] i = 2 -> productName \o " - szczegol"
      [] OTHER -> productName \o " - zdjecie " \o ToString(i + 1)

generateDefaultImageAlts(count, productName) ==
    [i \in 1..count |-> DefaultImageAlt(i - 1, productName)]

\* input.rawData?.brand
RawBrand(rawData) == IF CanGet(rawData) THEN Get(rawData, "brand") ELSE Undef

\* lines 57-58
ContentParsed(content) ==
    safeJsonParse(extractJsonFromMarkdown(content), EmptyObject)

\* lines 61-77 throw: a property of null is read, or formatAsHtml is handed
\* a value that is no string
ContentThrows(parsed) ==
    \/ ~CanGet(parsed)
    \/ /\ ~Truthy(Get(parsed, "htmlDescription"))
       /\ Truthy(Get(parsed, "longDescription"))
       /\ Get(parsed, "longDescription").t # "string"

\* lines 28-41 and 61-77; in is the ContentStageInput
ContentGenerationOf(in, content) ==
    LET parsed == ContentParsed(content)
        vision == in.visionAnalysis
        brand == Or(vision.detectedBrand, RawBrand(in.rawData))
        name == Get(parsed, "name")
    IN [name |-> Or(name, Str(TrimJoin(toString(Or(brand, Str(""))),
                                       toString(vision.productType)))),
        shortDescription |-> Or(Get(parsed, "shortDescription"), Str("")),
        longDescription |-> Or(Get(parsed, "longDescription"), Str("")),
        htmlDescription |->
            Or(Get(parsed, "htmlDescription"),
               formatAsHtml(Or(Get(parsed, "longDescription"), Str("")))),
        seoTitle |-> Or(Or(Get(parsed, "seoTitle"), name), Str("")),
        seoDescription |->
            Or(Or(Get(parsed, "seoDescription"),
                  Get(parsed, "shortDescription")), Str("")),
        keywords |-> ArrayOr(Get(parsed, "keywords"), Arr(<<>>)),
        attributes |->
            IF TypeofObject(Get(parsed, "attributes"))
               /\ Truthy(Get(parsed, "attributes"))
            THEN Get(parsed, "attributes")
            ELSE buildDefaultAttributes(vision),
        tags |-> ArrayOr(Get(parsed, "tags"), Arr(<<>>)),
        imageAlts |->
            ArrayOr(Get(parsed, "imageAlts"),
                    Arr(generateDefaultImageAlts(
                            IF in.imageCount = 0 THEN 1 ELSE in.imageCount,
                            toString(Or(name, vision.productType))))),
        rawResponse |-> content]

\* runContentStage, from the end of the generateContent call `fo`
runContentStage(in, fo) ==
    IF fo.state = "thrown"
    THEN Failed("Content generation failed: " \o errorMsg(fo.error))
    ELSE IF ContentThrows(ContentParsed(fo.result.content))
    THEN Failed("Content generation failed: "
                \o IF CanGet(ContentParsed(fo.result.content))
                   THEN NotAFunctionMessage ELSE TypeErrorMessage)
    ELSE Completed(ContentGenerationOf(in, fo.result.content))

-----------------------------------------------------------------------------
(* ViaMall content stage: services/pipeline/viamall-content-stage.ts.      *)
(* The fallback texts are built with their tags (html) or without them     *)
(* (what the text is once its tags are removed); the slug is left out.     *)

Tag(html, tag) == IF html THEN tag ELSE ""

\* data is [brand, productType, colors, materials, style, features, language]
ViaMallPromptData(in) ==
    [brand |-> Or(in.visionAnalysis.detectedBrand, RawBrand(in.rawData)),
     productType |-> in.visionAnalysis.productType,
     colors |-> in.visionAnalysis.colors.v,
     materials |-> in.visionAnalysis.materials.v,
     style |-> in.visionAnalysis.style,
     features |-> in.visionAnalysis.features.v,
     language |-> in.language]

buildFallbackName(data) ==
    Join((IF Truthy(data.brand) THEN <<toString(data.brand)>> ELSE <<>>)
         \o <<toString(data.productType)>>
         \o (IF Len(data.colors) > 0 THEN <<data.colors[1]>> ELSE <<>>), " ")
    \o " | "
    \o (IF data.language = "de" THEN "Hochwertige Qualitat" ELSE "Wysoka jakosc")

Bullet(html, label, text) ==
    Tag(html, "<p>") \o "+ " \o Tag(html, "<strong>") \o label
    \o Tag(html, "</strong>") \o text \o Tag(html, "</p>")

buildFallbackShortDescription(data, html) ==
    LET isGerman == data.language = "de"
    IN Tag(html, "<p><strong>") \o toString(data.productType)
       \o (IF isGerman THEN " in erstklassiger Qualitat."
           ELSE " najwyzszej jakosci.")
       \o Tag(html, "</strong></p>")
       \o (IF Len(data.materials) > 0
           THEN Bullet(html, "Material:", " " \o Join(data.materials, ", "))
           ELSE "")
       \o (IF Len(data.colors) > 0
           THEN Bullet(html, IF isGerman THEN "Farbe:" ELSE "Kolor:",
                       " " \o Join(data.colors, ", "))
           ELSE "")
       \o (IF Len(data.features) > 0
           THEN Bullet(html, data.features[1], "") ELSE "")
       \o Bullet(html, IF isGerman THEN "Qualitat:" ELSE "Jakosc:",
                 IF isGerman THEN " Hochwertige Verarbeitung"
                 ELSE " Wysoka jakosc wykonania")

buildFallbackLongDescription(data) ==
    LET isGerman == data.language = "de"
    IN "<h2>" \o (IF Truthy(data.brand) THEN toString(data.brand) \o " " ELSE "")
       \o toString(data.productType) \o "</h2>"
       \o (IF isGerman THEN "<p>Entdecken Sie dieses hochwertige "
           ELSE "<p>Odkryj ten wysokiej jakosci ")
       \o toString(data.productType) \o ".</p>"
       \o (IF isGerman THEN "<h3>Eigenschaften</h3>"
           ELSE "<h3>Cechy produktu</h3>")
       \o (IF Len(data.features) > 0
           THEN "<ul><li>" \o Join(data.features, "</li><li>") \o "</li></ul>"
           ELSE "")
       \o (IF isGerman THEN "<h3>Technische Daten</h3>"
           ELSE "<h3>Dane techniczne</h3>")
       \o (IF Len(data.materials) > 0 \/ Len(data.colors) > 0
              \/ Truthy(data.style)
           THEN "<table>"
                \o (IF Len(data.materials) > 0
                    THEN "<tr><td>Material:</td><td>"
                         \o Join(data.materials, ", ") \o "</td></tr>"
                    ELSE "")
                \o (IF Len(data.colors) > 0
                    THEN "<tr><td>" \o (IF isGerman THEN "Farbe" ELSE "Kolor")
                         \o ":</td><td>" \o Join(data.colors, ", ")
                         \o "</td></tr>"
                    ELSE "")
                \o (IF Truthy(data.style)
                    THEN "<tr><td>" \o (IF isGerman THEN "Stil" ELSE "Styl")
                         \o ":</td><td>" \o toString(data.style)
                         \o "</td></tr>"
                    ELSE "")
                \o "</table>"
           ELSE "")

\* slugify(text) throws on a value that is no string
ViaMallThrows(parsed) ==
    \/ ~CanGet(parsed)
    \/ LET slug == Get(parsed, "slug")
           name == Get(parsed, "name")
       IN IF Truthy(slug) THEN slug.t # "string"
          ELSE Truthy(name) /\ name.t # "string"

\* lines 72-78
ViaMallContentGenerationOf(in, content) ==
    LET parsed == ContentParsed(content)
        data == ViaMallPromptData(in)
    IN [name |-> Or(Get(parsed, "name"), Str(buildFallbackName(data))),
        shortDescription |->
            Or(Get(parsed, "shortDescription"),
               Str(buildFallbackShortDescription(data, TRUE))),
        longDescription |->
            Or(Get(parsed, "longDescription"),
               Str(buildFallbackLongDescription(data))),
        rawResponse |-> content]

\* runViaMallContentStage, from the end of the generateContent call `fo`
runViaMallContentStage(in, fo) ==
    IF fo.state = "thrown"
    THEN Failed("ViaMall content generation failed: " \o errorMsg(fo.error))
    ELSE IF ViaMallThrows(ContentParsed(fo.result.content))
    THEN Failed("ViaMall content generation failed: "
                \o IF CanGet(ContentParsed(fo.result.content))
                   THEN NotAFunctionMessage ELSE TypeErrorMessage)
    ELSE Completed(ViaMallContentGenerationOf(in, fo.result.content))

\* the texts of the model with tags, each with what is left without them
PlainOf == ("<p>A sturdy chair.</p>" :> "A sturdy chair.")

\* text.replace(/<[^>]*>/g, ''), for the texts that reach it
StripTags(text, in) ==
    LET fallback == buildFallbackShortDescription(ViaMallPromptData(in), TRUE)
    IN IF text.v = fallback
       THEN Str(buildFallbackShortDescription(ViaMallPromptData(in), FALSE))
       ELSE IF text.v \in DOMAIN PlainOf THEN Str(PlainOf[text.v])
       ELSE text

\* content-stage.ts lines 309-318 throw: name.slice or
\* shortDescription.replace is no function
ViaMallConvertThrows(data) ==
    \/ data.name.t \notin {"string", "array"}
    \/ data.shortDescription.t # "string"

\* content-stage.ts lines 305-331: the ViaMall result as a ContentGeneration
ViaMallConverted(in, viamallResult) ==
    IF viamallResult.status = "completed" /\ viamallResult.data # Undef
    THEN LET d == viamallResult.data
         IN Completed(
              [name |-> d.name,
               shortDescription |-> d.shortDescription,
               longDescription |-> d.longDescription,
               htmlDescription |-> d.longDescription,
               seoTitle |-> IF d.name.t = "string" THEN Slice(d.name, 70)
                            ELSE d.name,
               seoDescription |-> Slice(StripTags(d.shortDescription, in), 160),
               keywords |-> Arr(<<>>),
               attributes |-> EmptyObject,
               tags |-> Arr(<<>>),
               imageAlts |-> Arr(<<>>),
               rawResponse |-> d.rawResponse])
    ELSE [status |-> viamallResult.status, data |-> Undef,
          error |-> viamallResult.error]

-----------------------------------------------------------------------------
(* Validation stage: services/pipeline/validation-stage.ts and the schema  *)
(* of types/unified-product.ts                                             *)

\* the image URLs z.string().url() accepts
ValidUrls == {"https://cdn.example/" \o ToString(i) \o ".jpg" : i \in 1..MaxImages}

\* validation-stage.ts truncate: '' for a falsy text, the text when it fits,
\* else its first maxLength - 3 characters and '...'
\* the text is handed on whole
truncate_noCut(text, maxLength) == IF ~Truthy(text) THEN Str("") ELSE text
truncate(text, maxLength) ==
    IF ~Truthy(text) THEN Str("")
    ELSE IF text.t = "array" THEN text
    ELSE IF text.len <= maxLength THEN text
    ELSE [t |-> "string", v |-> text.v \o "[0," \o ToString(maxLength - 3)
                                \o ")...", len |-> maxLength]

\* truncate throws: text.slice is no function
TruncateThrows(text) == Truthy(text) /\ text.t \notin {"string", "array"}

\* gross / (1 + vatRate / 100)
calculateNetPrice_takesVatOff(gross, vatRate) ==
    Ratio(gross.n * (100 * vatRate.d - vatRate.n), gross.d * 100 * vatRate.d)
calculateNetPrice(gross, vatRate) ==
    Ratio(gross.n * 100 * vatRate.d, gross.d * (100 * vatRate.d + vatRate.n))

\* input.rawData || {}
RawDataOf(in) == IF Truthy(in.rawData) THEN in.rawData ELSE EmptyObject

\* content.attributes?.[key]
AttributeOf(content, key) ==
    IF CanGet(content.attributes) THEN Get(content.attributes, key) ELSE Undef

\* an empty element is handed on as it is
ElementOr_keepsEmpty(a, i, fallback) ==
    IF i + 1 <= Len(a) THEN a[i + 1] ELSE fallback

\* a[i] || fallback, i from 0
ElementOr(a, i, fallback) ==
    IF i + 1 <= Len(a) /\ a[i + 1] # "" THEN a[i + 1] ELSE fallback

BuildThrows(content) ==
    \/ TruncateThrows(content.name)
    \/ TruncateThrows(content.shortDescription)
    \/ TruncateThrows(content.seoTitle)
    \/ TruncateThrows(content.seoDescription)

\* the brand the vision detected comes before the one of the raw data
BrandOf_visionFirst(rawData, vision, content) ==
    Or(Or(Or(Or(vision.detectedBrand, Get(rawData, "brand")),
             AttributeOf(content, "Marka")),
          AttributeOf(content, "Brand")), Undef)

\* lines 125-129: rawData.brand || vision.detectedBrand
\* || content.attributes?.['Marka'] || content.attributes?.['Brand'] || undefined
BrandOf(rawData, vision, content) ==
    Or(Or(Or(Or(Get(rawData, "brand"), vision.detectedBrand),
             AttributeOf(content, "Marka")),
          AttributeOf(content, "Brand")), Undef)

\* lines 105-171, without metadata.generatedAt
buildUnifiedProduct(in, vision, content) ==
    LET rawData == RawDataOf(in)
        priceGross == Or(Get(rawData, "priceGross"), Ratio(9999, 100))
        vatRate == Or(Get(rawData, "vatRate"), Ratio(23, 1))
        priceNet == Or(Get(rawData, "priceNet"),
                       calculateNetPrice(priceGross, vatRate))
    IN [name |-> truncate(content.name, 128),
        description |-> [short |-> truncate(content.shortDescription, 500),
                         long |-> content.longDescription,
                         html |-> content.htmlDescription],
        seo |-> [title |-> truncate(content.seoTitle, 70),
                 description |-> truncate(content.seoDescription, 160),
                 keywords |-> content.keywords],
        pricing |-> [gross |-> priceGross, net |-> priceNet,
                     currency |-> Or(Get(rawData, "currency"), Str("PLN")),
                     vatRate |-> vatRate],
        attributes |-> content.attributes,
        categories |-> vision.suggestedCategories,
        images |-> [i \in 1..Len(in.images) |->
                       [url |-> in.images[i].url,
                        alt |-> ElementOr(content.imageAlts.v, i - 1,
                                          "Product image " \o ToString(i)),
                        position |-> i - 1]],
        identifiers |-> [ean |-> Get(rawData, "ean"), sku |-> Get(rawData, "sku")],
        stock |-> [quantity |-> IF Get(rawData, "quantity").t \in {"undefined", "null"}
                                THEN Ratio(1, 1) ELSE Get(rawData, "quantity"),
                   availability |-> "in_stock"],
        brand |-> BrandOf(rawData, vision, content),
        manufacturer |-> Get(rawData, "manufacturer"),
        condition |-> Or(vision.condition, Str("new")),
        weight |-> Get(rawData, "weight"),
        tags |-> content.tags,
        metadata |-> [visionConfidence |-> vision.confidence]]

\* the message without its path
Issue_noPath(violated, path, message) ==
    IF violated THEN <<message>> ELSE <<>>

\* one issue of the schema
Issue(violated, path, message) ==
    IF violated THEN <<path \o ": " \o message>> ELSE <<>>

\* z.string().min(1).max(n)
StringIssue(x, path, max) ==
    IF x.t # "string" THEN Issue(TRUE, path, "expected string")
    ELSE IF x.len < 1 THEN Issue(TRUE, path, "too small")
    ELSE Issue(x.len > max, path, "too big")

OptionalStringIssue(x, path) ==
    Issue(x.t \notin {"undefined", "string"}, path, "expected string")

Positive(x) == x.t = "number" /\ x.n > 0

IsInteger(x) == x.t = "number" /\ x.n % x.d = 0

RECURSIVE ImageIssues(_, _)
ImageIssues(images, i) ==
    IF i > Len(images) THEN <<>>
    ELSE Issue(images[i].url \notin ValidUrls,
               "images." \o ToString(i - 1) \o ".url", "Invalid URL")
         \o ImageIssues(images, i + 1)

\* z.record(z.string(), z.string()): one issue per key of `keys`, the keys
\* whose value is no string
RECURSIVE RecordIssues(_, _)
RecordIssues(record, keys) ==
    IF keys = {} THEN <<>>
    ELSE LET k == CHOOSE x \in keys : TRUE
         IN Issue(TRUE, "attributes." \o k, "expected string")
            \o RecordIssues(record, keys \ {k})

\* UnifiedProductSchema.safeParse(product).error.issues, as messages
SchemaIssues(product) ==
    StringIssue(product.name, "name", 255)
    \o StringIssue(product.description.short, "description.short", 500)
    \o (IF product.description.long.t # "string"
        THEN Issue(TRUE, "description.long", "expected string")
        ELSE Issue(product.description.long.len < 1, "description.long", "too small"))
    \o OptionalStringIssue(product.description.html, "description.html")
    \o StringIssue(product.seo.title, "seo.title", 70)
    \o StringIssue(product.seo.description, "seo.description", 160)
    \o Issue(product.seo.keywords.t # "array", "seo.keywords", "expected array")
    \o Issue(~Positive(product.pricing.gross), "pricing.gross", "too small")
    \o Issue(~Positive(product.pricing.net), "pricing.net", "too small")
    \o (IF product.pricing.currency.t # "string"
        THEN Issue(TRUE, "pricing.currency", "expected string")
        ELSE Issue(product.pricing.currency.len # 3, "pricing.currency",
                   "length 3"))
    \o (IF product.pricing.vatRate.t # "number"
        THEN Issue(TRUE, "pricing.vatRate", "expected number")
        ELSE IF product.pricing.vatRate.n < 0
        THEN Issue(TRUE, "pricing.vatRate", "too small")
        ELSE Issue(product.pricing.vatRate.n > 100 * product.pricing.vatRate.d,
                   "pricing.vatRate", "too big"))
    \o (IF product.attributes.t # "object"
        THEN Issue(TRUE, "attributes", "expected record")
        ELSE RecordIssues(product.attributes.v,
                          {k \in DOMAIN product.attributes.v :
                               product.attributes.v[k].t # "string"}))
    \o Issue(product.categories.t # "array", "categories", "expected array")
    \o Issue(Len(product.images) < 1, "images", "too small")
    \o ImageIssues(product.images, 1)
    \o OptionalStringIssue(product.identifiers.ean, "identifiers.ean")
    \o OptionalStringIssue(product.identifiers.sku, "identifiers.sku")
    \o (IF product.stock.quantity.t # "number"
        THEN Issue(TRUE, "stock.quantity", "expected number")
        ELSE IF ~IsInteger(product.stock.quantity)
        THEN Issue(TRUE, "stock.quantity", "expected int")
        ELSE Issue(product.stock.quantity.n < 0, "stock.quantity", "too small"))
    \o OptionalStringIssue(product.brand, "brand")
    \o OptionalStringIssue(product.manufacturer, "manufacturer")
    \o Issue(~isValidCondition(product.condition), "condition", "invalid enum")
    \o Issue(product.weight.t # "undefined" /\ ~Positive(product.weight),
             "weight", "too small")
    \o Issue(product.tags.t # "array", "tags", "expected array")

\* lines 61-79
Warnings(product) ==
    (IF product.description.short.len < 50
     THEN <<"Short description might be too short for good SEO">> ELSE <<>>)
    \o (IF Len(product.seo.keywords.v) < 3
        THEN <<"Consider adding more SEO keywords">> ELSE <<>>)
    \o (IF Len(product.images) < 2
        THEN <<"Products with multiple images typically perform better">>
        ELSE <<>>)
    \o (IF ~Truthy(product.brand)
        THEN <<"Brand is not specified - this may affect searchability">>
        ELSE <<>>)

\* runValidationStage: the stage result, and with it the product
runValidationStage(in, vision, content) ==
    IF BuildThrows(content)
    THEN [status |-> "failed",
          data |-> [isValid |-> FALSE, errors |-> <<NotAFunctionMessage>>,
                    warnings |-> <<>>],
          error |-> Str("Validation failed: " \o NotAFunctionMessage),
          product |-> Undef]
    ELSE LET product == buildUnifiedProduct(in, vision, content)
             errors == SchemaIssues(product)
         IN IF Len(errors) > 0
            THEN [status |-> "failed",
                  data |-> [isValid |-> FALSE, errors |-> errors,
                            warnings |-> <<>>],
                  error |-> Str("Validation failed: " \o Join(errors, "; ")),
                  product |-> Undef]
            ELSE [status |-> "completed",
                  data |-> [isValid |-> TRUE, errors |-> <<>>,
                            warnings |-> Warnings(product)],
                  error |-> Undef,
                  product |-> product]

-----------------------------------------------------------------------------
(* What the upstream model may answer *)

VisionFull ==
    Obj([productType |-> Str("Chair"), detectedBrand |-> Str("Acme"),
         colors |-> Arr(<<"red", "blue">>), materials |-> Arr(<<"wood">>),
         style |-> Str("Modern"), condition |-> Str("used"),
         features |-> Arr(<<"armrests">>),
         suggestedCategories |-> Arr(<<"Furniture">>),
         confidence |-> Num(90)])

VisionPartial ==
    Obj([productType |-> Str("Lamp"), colors |-> Arr(<<"white">>)])

\* fields of the wrong type
VisionWrong ==
    Obj([productType |-> Num(0), detectedBrand |-> Null,
         colors |-> Str("red"), condition |-> Str("broken"),
         confidence |-> Str("high")])

\* a confidence outside [0, 1]
VisionBelow == Obj([productType |-> Str("Vase"), confidence |-> Num(-50)])
VisionAbove == Obj([productType |-> Str("Desk"), confidence |-> Num(150)])

\* a brand that is a number and no string
VisionNumericBrand ==
    Obj([productType |-> Str("Mug"), detectedBrand |-> Ratio(7, 1),
         confidence |-> Num(80)])

VisionPayloads ==
    {Garbage, Null, Num(70), Str("a chair"), Arr(<<"chair">>), EmptyObject,
     VisionFull, VisionPartial, VisionWrong, VisionBelow, VisionAbove,
     VisionNumericBrand}

VisionTexts == {Text(w, b) : w \in Wraps, b \in VisionPayloads}

ContentFull ==
    Obj([name |-> Str("Acme Chair"),
         shortDescription |-> Str("<p>A sturdy chair.</p>"),
         longDescription |-> Str("A sturdy chair for every room."),
         seoTitle |-> Str("Acme Chair - buy online"),
         seoDescription |-> Str("Sturdy Acme chair."),
         keywords |-> Arr(<<"chair", "acme", "wood">>),
         attributes |-> Obj([Brand |-> Str("Acme")]),
         tags |-> Arr(<<"chair">>),
         imageAlts |-> Arr(<<"Acme Chair front">>)])

ContentPartial ==
    Obj([name |-> Str("Chair"), longDescription |-> Str("A chair.")])

\* fields of the wrong type
ContentWrong ==
    Obj([name |-> Num(5), longDescription |-> Num(7),
         keywords |-> Str("chair"), attributes |-> Arr(<<>>)])

\* the limits of the bounded fields
ShortDescriptionMax == 500
SeoTitleMax == 70
SeoDescriptionMax == 160

\* a text of n characters, too long to write out
LongText(tag, n) == [t |-> "string", v |-> tag, len |-> n]

\* every bounded field one character over its limit
ContentLong ==
    Obj([name |-> Str("Acme Chair"),
         shortDescription |-> LongText("short", ShortDescriptionMax + 1),
         longDescription |-> Str("A sturdy chair for every room."),
         seoTitle |-> LongText("title", SeoTitleMax + 1),
         seoDescription |-> LongText("seo", SeoDescriptionMax + 1)])

\* attributes that name a brand twice, and once with an empty 'Marka';
\* the first has an empty alt text for the first image
ContentTwoBrands ==
    Obj([name |-> Str("Chair"),
         shortDescription |-> Str("<p>A chair.</p>"),
         longDescription |-> Str("A chair."),
         attributes |-> Obj([Marka |-> Str("Markex"), Brand |-> Str("Brandex")]),
         imageAlts |-> Arr(<<"", "Chair side">>)])

ContentEmptyMarka ==
    Obj([name |-> Str("Chair"),
         shortDescription |-> Str("<p>A chair.</p>"),
         longDescription |-> Str("A chair."),
         attributes |-> Obj([Marka |-> Str(""), Brand |-> Str("Brandex")])])

ContentPayloads ==
    {Garbage, Null, Arr(<<"chair">>), EmptyObject, ContentFull, ContentPartial,
     ContentWrong, ContentLong, ContentTwoBrands, ContentEmptyMarka}

ContentTexts == {Text(w, b) : w \in Wraps, b \in ContentPayloads}

-----------------------------------------------------------------------------
(* One invocation *)

NewRun(entry, pc, onProgress) ==
    [entry |-> entry, pc |-> pc, onProgress |-> onProgress,
     visionResult |-> StageResult("pending"),
     contentResult |-> StageResult("pending"),
     validationResult |-> StageResult("pending"),
     finalProduct |-> Undef,
     errors |-> <<>>,
     status |-> "none",
     fo |-> IdleCall,
     notes |-> <<>>]

\* onProgress?.(note): nothing without an observer; an observer is called
\* with the note and returns, returns a promise that never settles (the
\* call is not awaited), or throws
Observers == {"none", "returns", "pending", "throws"}

onProgress(r, stage, status, progress) ==
    IF r.pc = "thrown" \/ r.onProgress = "none" THEN r
    ELSE LET r1 == [r EXCEPT !.notes = Append(@, [stage |-> stage,
                                 status |-> status, progress |-> progress])]
         IN IF r.onProgress = "throws" THEN [r1 EXCEPT !.pc = "thrown"] ELSE r1

\* the code that follows, unless an exception is on its way up
Goto(r, pc) == IF r.pc = "thrown" THEN r ELSE [r EXCEPT !.pc = pc]

\* a failed stage leaves no message
PushIfFailed_silent(errors, result, fallback) == errors

\* errors.push(result.error || fallback) when the stage failed
PushIfFailed(errors, result, fallback) ==
    IF result.status = "failed"
    THEN Append(errors, toString(Or(result.error, Str(fallback))))
    ELSE errors

\* the ContentStageInput / ViaMallContentStageInput runPipeline builds
ContentInput(r) ==
    [visionAnalysis |-> r.visionResult.data, rawData |-> input.rawData,
     language |-> options.language, imageCount |-> Len(input.images)]

\* the Vision stage starts whatever skipVision says
StartPipeline_alwaysVision(r) ==
    Goto(onProgress(r, "vision", "running", 10), "fetch")

\* content-stage.ts lines 209-240, 275-280: up to `await urlsToBase64`
StartPipeline(r) ==
    IF ~options.skipVision
    THEN Goto(onProgress(r, "vision", "running", 10), "fetch")
    ELSE [r EXCEPT !.visionResult = StageResult("skipped"), !.pc = "stage2"]

\* lines 243-244 resolve, or reject into the catch of lines 257-265
UrlsToBase64(r, ok) ==
    IF ok THEN [r EXCEPT !.pc = "vision_begin"]
    ELSE LET message == "Failed to fetch image: 404"
             r1 == [r EXCEPT !.visionResult = Failed(message),
                             !.errors = Append(@, "Vision stage error: " \o message)]
         IN Goto(onProgress(r1, "vision", "failed", 33), "stage2")

\* analyzeImages up to its first adapter call
BeginAnalyzeImages(r) ==
    LET fo == [BeginCall("vision", getVisionAdapters)
                  EXCEPT !.instances = InstancesOf(getVisionAdapters)]
    IN [r EXCEPT !.fo = fo,
                 !.pc = IF fo.state = "thrown" THEN "vision_end" ELSE "vision_call"]

\* the adapter call in flight ends
EndAttempt(r, fo, done) ==
    [r EXCEPT !.fo = fo, !.pc = IF fo.state = "attempting" THEN @ ELSE done]

\* runVisionStage lines 34-70, then runPipeline lines 252-274
EndVisionStage(r) ==
    LET result == runVisionStage(r.fo)
    IN IF r.entry = "runPipeline"
       THEN LET r1 == [r EXCEPT !.visionResult = result, !.fo = IdleCall,
                                !.errors = PushIfFailed(@, result,
                                                        "Vision analysis failed")]
            IN Goto(onProgress(r1, "vision", result.status, 33), "stage2")
       ELSE [r EXCEPT !.visionResult = result, !.pc = "returned"]

\* runPipeline lines 283-290, 366-371
BeginContentStage(r) ==
    IF r.visionResult.status = "completed" /\ r.visionResult.data # Undef
       /\ ~options.skipContent
    THEN Goto(onProgress(r, "content", "running", 40), "content_begin")
    ELSE IF ~options.skipContent
    THEN [r EXCEPT !.contentResult = StageResult("skipped"), !.pc = "stage3"]
    ELSE [r EXCEPT !.pc = "stage3"]

\* generateContent up to its first adapter call
BeginGenerateContent(r) ==
    LET fo == [BeginCall("text", getAvailableAdapters)
                  EXCEPT !.instances = InstancesOf(getAvailableAdapters)]
    IN [r EXCEPT !.fo = fo,
                 !.pc = IF fo.state = "thrown" THEN "content_end" ELSE "content_call"]

\* runPipeline line 292
UsesViaMall == options.useViaMallFormat /\ options.language \in {"de", "pl"}

\* runPipeline lines 292-356: the content result and the errors pushed
ContentOutcome(r) ==
    IF UsesViaMall
    THEN LET viamallResult == runViaMallContentStage(ContentInput(r), r.fo)
         IN IF viamallResult.status = "completed"
               /\ ViaMallConvertThrows(viamallResult.data)
            THEN [result |-> [status |-> "failed", data |-> Undef,
                              error |-> Str(NotAFunctionMessage)],
                  errors |-> Append(r.errors, "Content stage error: "
                                                \o NotAFunctionMessage)]
            ELSE LET result == ViaMallConverted(ContentInput(r), viamallResult)
                 IN [result |-> result,
                     errors |-> PushIfFailed(r.errors, result,
                                             "Content generation failed")]
    ELSE LET result == runContentStage(ContentInput(r), r.fo)
         IN [result |-> result,
             errors |-> PushIfFailed(r.errors, result, "Content generation failed")]

\* the content stage from the end of generateContent, then lines 345-365
EndContentStage(r) ==
    IF r.entry = "runPipeline"
    THEN LET out == ContentOutcome(r)
             r1 == [r EXCEPT !.contentResult = out.result, !.fo = IdleCall,
                             !.errors = out.errors]
         IN Goto(onProgress(r1, "content", out.result.status, 66), "stage3")
    ELSE [r EXCEPT !.contentResult =
                       IF r.entry = "runViaMallContentStage"
                       THEN runViaMallContentStage(ContentInput(r), r.fo)
                       ELSE runContentStage(ContentInput(r), r.fo),
                   !.pc = "returned"]

\* a failed validation still hands over the product it built
Validated_keepsProduct(r) ==
    LET result == runValidationStage(input, r.visionResult.data,
                                     r.contentResult.data)
        validationResult == [status |-> result.status, data |-> result.data,
                             error |-> result.error]
    IN [r EXCEPT !.validationResult = validationResult,
                 !.finalProduct =
                     IF BuildThrows(r.contentResult.data) THEN Undef
                     ELSE buildUnifiedProduct(input, r.visionResult.data,
                                              r.contentResult.data),
                 !.errors = PushIfFailed(@, validationResult, "Validation failed")]

\* a failed validation takes the ContentGeneration out of the output
Validated_dropsContent(r) ==
    LET result == runValidationStage(input, r.visionResult.data,
                                     r.contentResult.data)
        validationResult == [status |-> result.status, data |-> result.data,
                             error |-> result.error]
    IN [r EXCEPT !.validationResult = validationResult,
                 !.finalProduct = result.product,
                 !.contentResult = IF result.status = "failed"
                                   THEN StageResult("pending") ELSE @,
                 !.errors = PushIfFailed(@, validationResult, "Validation failed")]

\* lines 388-415
Validated(r) ==
    LET result == runValidationStage(input, r.visionResult.data,
                                     r.contentResult.data)
        validationResult == [status |-> result.status, data |-> result.data,
                             error |-> result.error]
    IN [r EXCEPT !.validationResult = validationResult,
                 !.finalProduct = result.product,
                 !.errors = PushIfFailed(@, validationResult, "Validation failed")]

\* runValidationStage called on its own
EndValidationStage(r) == [Validated(r) EXCEPT !.pc = "returned"]

\* lines 374-425
ValidationStage(r) ==
    IF r.visionResult.status = "completed" /\ r.contentResult.status = "completed"
       /\ r.visionResult.data # Undef /\ r.contentResult.data # Undef
    THEN LET r1 == onProgress(r, "validation", "running", 80)
             r2 == IF r1.pc = "thrown" THEN r1 ELSE Validated(r1)
         IN Goto(onProgress(r2, "validation", r2.validationResult.status, 100),
                 "finish")
    ELSE [r EXCEPT !.pc = "finish"]

\* `&&` where lines 433-436 have `||`
OverallStatus_bothCompleted(r) ==
    IF r.finalProduct # Undef /\ r.validationResult.status = "completed"
    THEN "completed"
    ELSE IF r.visionResult.status = "completed"
            /\ r.contentResult.status = "completed"
    THEN "partial"
    ELSE "failed"

\* lines 430-440
OverallStatus(r) ==
    IF r.finalProduct # Undef /\ r.validationResult.status = "completed"
    THEN "completed"
    ELSE IF r.visionResult.status = "completed"
            \/ r.contentResult.status = "completed"
    THEN "partial"
    ELSE "failed"

\* lines 427-450
ReturnOutput(r) == [r EXCEPT !.status = OverallStatus(r), !.pc = "returned"]

-----------------------------------------------------------------------------
(* Inputs *)

\* how many providers have their API key set, in the runs of a stage or of
\* the pipeline (a failover call on its own is run with every subset)
MaxConfigured == 2

Environments(n) == {S \in SUBSET ProviderType : Cardinality(S) <= n}

InvalidUrl == "not a url"

\* n images; with `bad` the last URL is none
Images(n, bad) ==
    [i \in 1..n |-> [url |-> IF bad /\ i = n THEN InvalidUrl
                             ELSE "https://cdn.example/" \o ToString(i) \o ".jpg"]]

\* PipelineInputSchema: images has at least one element
ImageLists == {Images(n, bad) : n \in 1..MaxImages, bad \in BOOLEAN}

RawData ==
    Obj([brand |-> Str("Rawbrand"), priceGross |-> Num(12300),
         vatRate |-> Ratio(23, 1), ean |-> Str("5901234123457")])

\* raw data with a net price of its own
RawDataNet ==
    Obj([priceGross |-> Num(12300), priceNet |-> Num(9500),
         vatRate |-> Ratio(23, 1)])

\* raw data with a VAT rate of 0
RawDataZeroVat == Obj([priceGross |-> Num(10000), vatRate |-> Ratio(0, 1)])

\* raw data with a currency, a key the input schema does not know and the
\* draft hands on
RawDataCurrency == Obj([priceGross |-> Num(4500), currency |-> Str("zloty")])

\* raw data of a draft with a quantity of -0.5, neither whole nor positive
RawDataFractionalQuantity == Obj([quantity |-> Ratio(-1, 2)])

RawDatas ==
    {Undef, RawData, RawDataNet, RawDataZeroVat, RawDataCurrency,
     RawDataFractionalQuantity}

Languages == {"pl", "en", "de"}

\* what the model answers in the runs of the pipeline, where the stages'
\* outcomes matter and not each shape of text
PipelineVisionTexts ==
    {Text("bare", VisionFull), Text("prose", Garbage), Text("fenced", Null)}
PipelineContentTexts ==
    {Text("fenced", ContentFull), Text("bare", EmptyObject),
     Text("prose", ContentWrong), Text("bare", Null)}

\* and the ways an attempt fails there: one the provider signals, one the
\* adapter finds in the response
FailuresIn(entry) ==
    IF entry = "runPipeline" THEN {"rate_limit", "malformed"} ELSE FailClasses

VisionAnswers(entry) ==
    IF entry = "runPipeline" THEN PipelineVisionTexts
    ELSE IF entry = "analyzeImages" THEN {Text("bare", VisionFull)}
    ELSE VisionTexts

ContentAnswers(entry) ==
    IF entry = "runPipeline" THEN PipelineContentTexts
    ELSE IF entry = "generateContent" THEN {Text("bare", ContentFull)}
    ELSE ContentTexts

\* the VisionAnalysis records a completed Vision stage hands on
VisionAnalyses ==
    {VisionAnalysisOf(text) :
        text \in {x \in VisionTexts : CanGet(VisionParsed(x))}}

TypeOK ==
    /\ env \subseteq ProviderType
    /\ adapters \subseteq env
    /\ constructed \in [ProviderType -> Nat]
    /\ run.pc \in {"start", "fetch", "vision_begin", "vision_call", "vision_end",
                   "stage2", "content_begin", "content_call", "content_end",
                   "stage3", "validation_call", "finish", "returned", "thrown"}
    /\ run.onProgress \in Observers
    /\ ref.onProgress = "none"

-----------------------------------------------------------------------------
(* Initial states, one per entry point *)

InitCall(envs, entry, pc, observer) ==
    /\ env \in envs
    /\ adapters = {}
    /\ constructed = NoneConstructed
    /\ run = NewRun(entry, pc, observer)
    /\ ref = NewRun(entry, pc, "none")

\* runPipeline(input, options)
Init ==
    /\ \E o \in Observers : InitCall(Environments(MaxConfigured), "runPipeline", "start", o)
    /\ input \in [images : ImageLists, rawData : {Undef, RawData}]
    /\ options \in [skipVision : BOOLEAN, skipContent : BOOLEAN,
                    useViaMallFormat : BOOLEAN, language : {"pl", "en"}]

NoInput == [images |-> Images(1, FALSE), rawData |-> Undef]
NoOptions == [skipVision |-> FALSE, skipContent |-> FALSE,
              useViaMallFormat |-> FALSE, language |-> "pl"]

\* generateContent(prompt) or analyzeImages(images, prompt)
InitFailover ==
    /\ \/ InitCall(SUBSET ProviderType, "generateContent", "content_begin", "none")
       \/ InitCall(SUBSET ProviderType, "analyzeImages", "vision_begin", "none")
    /\ input = NoInput
    /\ options = NoOptions

-----------------------------------------------------------------------------
(* Actions.  Each steps `run` and `ref` together, on the same answer. *)

Both(pc, Step(_)) ==
    /\ run.pc = pc \/ ref.pc = pc
    /\ run' = IF run.pc = pc THEN Step(run) ELSE run
    /\ ref' = IF ref.pc = pc THEN Step(ref) ELSE ref

PipelineStart ==
    /\ Both("start", StartPipeline)
    /\ UNCHANGED <<env, adapters, constructed, input, options>>

FetchImages ==
    /\ \E ok \in BOOLEAN : Both("fetch", LAMBDA r : UrlsToBase64(r, ok))
    /\ UNCHANGED <<env, adapters, constructed, input, options>>

AnalyzeImages ==
    /\ Both("vision_begin", BeginAnalyzeImages)
    /\ adapters' = adaptersAfterLookup
    /\ constructed' = constructedAfterLookup
    /\ UNCHANGED <<env, input, options>>

VisionAttemptSucceeds ==
    /\ \E text \in VisionAnswers(run.entry) :
          Both("vision_call",
               LAMBDA r : EndAttempt(r, AttemptSucceeds(r.fo, text), "vision_end"))
    /\ UNCHANGED <<env, adapters, constructed, input, options>>

VisionAttemptFails ==
    /\ \E class \in FailuresIn(run.entry) :
          Both("vision_call",
               LAMBDA r : EndAttempt(r, AttemptFails(r.fo, AdapterError(class)),
                                     "vision_end"))
    /\ UNCHANGED <<env, adapters, constructed, input, options>>

VisionStageEnd ==
    /\ Both("vision_end", EndVisionStage)
    /\ UNCHANGED <<env, adapters, constructed, input, options>>

ContentStageBegin ==
    /\ Both("stage2", BeginContentStage)
    /\ UNCHANGED <<env, adapters, constructed, input, options>>

GenerateContent ==
    /\ Both("content_begin", BeginGenerateContent)
    /\ adapters' = adaptersAfterLookup
    /\ constructed' = constructedAfterLookup
    /\ UNCHANGED <<env, input, options>>

ContentAttemptSucceeds ==
    /\ \E text \in ContentAnswers(run.entry) :
          Both("content_call",
               LAMBDA r : EndAttempt(r, AttemptSucceeds(r.fo, text), "content_end"))
    /\ UNCHANGED <<env, adapters, constructed, input, options>>

ContentAttemptFails ==
    /\ \E class \in FailuresIn(run.entry) :
          Both("content_call",
               LAMBDA r : EndAttempt(r, AttemptFails(r.fo, AdapterError(class)),
                                     "content_end"))
    /\ UNCHANGED <<env, adapters, constructed, input, options>>

ContentStageEnd ==
    /\ Both("content_end", EndContentStage)
    /\ UNCHANGED <<env, adapters, constructed, input, options>>

Validation ==
    /\ Both("stage3", ValidationStage)
    /\ UNCHANGED <<env, adapters, constructed, input, options>>

Return ==
    /\ Both("finish", ReturnOutput)
    /\ UNCHANGED <<env, adapters, constructed, input, options>>

Next ==
    \/ PipelineStart
    \/ FetchImages
    \/ AnalyzeImages
    \/ VisionAttemptSucceeds
    \/ VisionAttemptFails
    \/ VisionStageEnd
    \/ ContentStageBegin
    \/ GenerateContent
    \/ ContentAttemptSucceeds
    \/ ContentAttemptFails
    \/ ContentStageEnd
    \/ Validation
    \/ Return

Spec == Init /\ [][Next]_vars

NextFailover ==
    \/ AnalyzeImages
    \/ VisionAttemptSucceeds
    \/ VisionAttemptFails
    \/ GenerateContent
    \/ ContentAttemptSucceeds
    \/ ContentAttemptFails

SpecFailover == InitFailover /\ [][NextFailover]_vars

\* runVisionStage(input), or runContentStage(input) with the VisionAnalysis
\* of a completed Vision stage; one provider at most is configured
InitStage ==
    \/ /\ InitCall(Environments(1), "runVisionStage", "vision_begin", "none")
       /\ input = NoInput
       /\ options = NoOptions
    \/ /\ env \in Environments(1)
       /\ adapters = {}
       /\ constructed = NoneConstructed
       /\ \E vision \in VisionAnalyses :
             /\ run = [NewRun("runContentStage", "content_begin", "none")
                          EXCEPT !.visionResult = Completed(vision)]
             /\ ref = run
       /\ input \in [images : {Images(n, FALSE) : n \in 1..MaxImages},
                      rawData : {Undef, RawData}]
       /\ options = NoOptions

NextStage ==
    \/ AnalyzeImages
    \/ VisionAttemptSucceeds
    \/ VisionAttemptFails
    \/ VisionStageEnd
    \/ GenerateContent
    \/ ContentAttemptSucceeds
    \/ ContentAttemptFails
    \/ ContentStageEnd

SpecStage == InitStage /\ [][NextStage]_vars

\* z.string().optional()
OptionalString(x) == x.t \in {"undefined", "string"}

\* VisionAnalysisSchema.safeParse(vision).success
ConformsToVisionAnalysisSchema(vision) ==
    /\ vision.productType.t = "string"
    /\ OptionalString(vision.detectedBrand)
    /\ OptionalString(vision.detectedModel)
    /\ IsArray(vision.colors)
    /\ IsArray(vision.materials)
    /\ OptionalString(vision.style)
    /\ vision.condition.t = "undefined" \/ isValidCondition(vision.condition)
    /\ IsArray(vision.features)
    /\ IsArray(vision.suggestedCategories)
    /\ vision.confidence.t = "number"
    /\ 0 <= vision.confidence.n
    /\ vision.confidence.n <= vision.confidence.d

\* ContentGenerationSchema.safeParse(content).success
ConformsToContentGenerationSchema(content) ==
    /\ content.name.t = "string"
    /\ content.shortDescription.t = "string"
    /\ content.longDescription.t = "string"
    /\ OptionalString(content.htmlDescription)
    /\ content.seoTitle.t = "string"
    /\ content.seoDescription.t = "string"
    /\ IsArray(content.keywords)
    /\ content.attributes.t = "object"
    /\ \A k \in DOMAIN content.attributes.v : content.attributes.v[k].t = "string"
    /\ IsArray(content.tags)
    /\ IsArray(content.imageAlts)

\* the rawData part of PipelineInputSchema.safeParse(input).success
ConformsToRawDataSchema(rawData) ==
    \/ rawData.t = "undefined"
    \/ /\ rawData.t = "object"
       /\ OptionalString(Get(rawData, "ean"))
       /\ OptionalString(Get(rawData, "sku"))
       /\ Get(rawData, "priceGross").t = "undefined"
              \/ Positive(Get(rawData, "priceGross"))
       /\ Get(rawData, "priceNet").t = "undefined"
              \/ Positive(Get(rawData, "priceNet"))
       /\ \/ Get(rawData, "vatRate").t = "undefined"
          \/ /\ Get(rawData, "vatRate").t = "number"
             /\ 0 <= Get(rawData, "vatRate").n
             /\ Get(rawData, "vatRate").n <= 100 * Get(rawData, "vatRate").d
       /\ OptionalString(Get(rawData, "brand"))
       /\ OptionalString(Get(rawData, "manufacturer"))
       /\ \/ Get(rawData, "quantity").t = "undefined"
          \/ IsInteger(Get(rawData, "quantity")) /\ Get(rawData, "quantity").n >= 0
       /\ Get(rawData, "weight").t = "undefined"
              \/ Positive(Get(rawData, "weight"))
\* runValidationStage(input) with the VisionAnalysis and the ContentGeneration
\* of completed stages; the list of images may be empty here
InitValidation ==
    /\ env = {}
    /\ adapters = {}
    /\ constructed = NoneConstructed
    /\ input \in [images : {<<>>} \cup ImageLists, rawData : RawDatas]
    /\ options = NoOptions
    /\ \E vision \in VisionAnalyses :
       \E text \in {x \in ContentTexts : ~ContentThrows(ContentParsed(x))} :
          LET in == [visionAnalysis |-> vision, rawData |-> input.rawData,
                     language |-> options.language,
                     imageCount |-> Len(input.images)]
          IN run = [NewRun("runValidationStage", "validation_call", "none")
                       EXCEPT !.visionResult = Completed(vision),
                              !.contentResult =
                                  Completed(ContentGenerationOf(in, text))]
    /\ ref = run

ValidationStageCall ==
    /\ Both("validation_call", EndValidationStage)
    /\ UNCHANGED <<env, adapters, constructed, input, options>>

NextValidation == ValidationStageCall

SpecValidation == InitValidation /\ [][NextValidation]_vars

-----------------------------------------------------------------------------
(* Failover claims, about the failover call of `run` *)

Priority(t) == DEFAULT_PROVIDER_CONFIGS[t].priority

\* the providers one call of the capability may use: those with a key set,
\* and of these the vision-capable ones for analyzeImages
Usable(cap) ==
    {t \in env : cap = "vision" => DEFAULT_PROVIDER_CONFIGS[t].supportsVision}

CallMade == run.fo.state # "idle"

Attempted == {run.fo.calls[k].provider : k \in 1..Len(run.fo.calls)}

StartsWith(text, prefix) ==
    Len(text) >= Len(prefix) /\ SubSeq(text, 1, Len(prefix)) = prefix

\* C1: one failover call attempts the usable adapters in strictly ascending
\* priority number, leaving none out on the way; a success is the last
\* attempt of the call, and the call returns that adapter's result
C1_AscendingPriorityFirstSuccess ==
    LET calls == run.fo.calls
    IN /\ \A k \in 1..Len(calls) :
             /\ calls[k].provider \in Usable(run.fo.cap)
             /\ \A j \in 1..(k - 1) :
                    Priority(calls[j].provider) < Priority(calls[k].provider)
             /\ \A t \in Usable(run.fo.cap) :
                    Priority(t) < Priority(calls[k].provider)
                        => \E j \in 1..(k - 1) : calls[j].provider = t
             /\ calls[k].ok =>
                    /\ k = Len(calls)
                    /\ run.fo.state = "returned"
                    /\ run.fo.result = [content |-> calls[k].content,
                                        provider |-> calls[k].provider]
       /\ run.fo.state = "returned" => Len(calls) > 0 /\ calls[Len(calls)].ok

\* two adapters failed and the third one, of lower priority, answered
C1_Witness ==
    /\ run.fo.state = "returned"
    /\ Len(run.fo.calls) = 3
    /\ run.fo.result.provider = run.fo.calls[3].provider
    /\ Cardinality(env) > 3

\* C2: no adapter is attempted twice in one call; after a failed attempt,
\* whatever its class, the next usable adapter is in flight when there is
\* one, and the call ends in failure only when there is none; a call that
\* returns returns what its last attempt answered
C2_OnceEachAndNextAfterFailure ==
    LET calls == run.fo.calls
        left == Usable(run.fo.cap) \ Attempted
    IN /\ \A j, k \in 1..Len(calls) : j # k => calls[j].provider # calls[k].provider
       /\ (Len(calls) > 0 /\ ~calls[Len(calls)].ok) =>
              IF left = {}
              THEN run.fo.state = "thrown"
              ELSE /\ run.fo.state = "attempting"
                   /\ run.fo.list[run.fo.i] \in left
                   /\ \A t \in left : Priority(run.fo.list[run.fo.i]) <= Priority(t)
       /\ run.fo.state = "returned" =>
              run.fo.result.content = calls[Len(calls)].content

\* A and B fail with a rate limit, then C succeeds
C2_Witness ==
    /\ run.fo.state = "returned"
    /\ Len(run.fo.calls) = 3
    /\ \A k \in 1..2 : run.fo.calls[k].message = errorMsg(AdapterError("rate_limit"))
    /\ run.fo.calls[3].ok
    /\ run.fo.result.content = run.fo.calls[3].content

\* the entry of the aggregate error for one failed attempt
ErrorEntry(call) == call.provider \o ": " \o call.message

\* C3: when every usable adapter failed, the call fails with the aggregate
\* error: its header, then one entry (provider id, that adapter's error
\* message) per attempt made, in the order of the attempts
C3_AggregateErrorOneEntryPerAttempt ==
    (run.fo.state = "thrown" /\ Usable(run.fo.cap) # {}) =>
        /\ Attempted = Usable(run.fo.cap)
        /\ Len(run.fo.calls) = Cardinality(Usable(run.fo.cap))
        /\ run.fo.errors = [k \in 1..Len(run.fo.calls) |-> ErrorEntry(run.fo.calls[k])]
        /\ run.fo.error.message =
               AllFailedHeader(run.fo.cap) \o "\n"
                   \o Join([k \in 1..Len(run.fo.calls) |-> ErrorEntry(run.fo.calls[k])],
                           "\n")

\* three adapters failed, each in its own way
C3_Witness ==
    /\ run.fo.state = "thrown"
    /\ Len(run.fo.calls) = 3
    /\ Cardinality({run.fo.calls[k].message : k \in 1..3}) = 3

\* C4: with no usable adapter the call fails at once: no adapter call is
\* made, and the error is the configuration error, which does not begin
\* like the aggregate error; the aggregate error does, so the two differ
C4_NoProviderConfigurationError ==
    /\ (CallMade /\ Usable(run.fo.cap) = {}) =>
           /\ run.fo.state = "thrown"
           /\ run.fo.calls = <<>>
           /\ run.pc \in {"vision_end", "content_end"}
           /\ run.fo.error.isError
           /\ ~StartsWith(run.fo.error.message, "All ")
    /\ (run.fo.state = "thrown" /\ Usable(run.fo.cap) # {}) =>
           /\ StartsWith(run.fo.error.message, "All ")
           /\ run.fo.error.message # NoProvidersMessage(run.fo.cap)

\* analyzeImages with text providers configured, none of them for vision
C4_Witness ==
    /\ run.fo.state = "thrown"
    /\ run.fo.cap = "vision"
    /\ env # {}
    /\ Usable("vision") = {}
    /\ run.fo.calls = <<>>

-----------------------------------------------------------------------------
(* Pipeline claims *)

\* runPipeline has returned its PipelineOutput
Returned(r) == r.entry = "runPipeline" /\ r.pc = "returned"

\* the PipelineOutput, without the durations
PipelineOutput(r) ==
    [visionAnalysis |-> r.visionResult, contentGeneration |-> r.contentResult,
     validation |-> r.validationResult, product |-> r.finalProduct,
     status |-> r.status, errors |-> r.errors]

\* C5: in every PipelineOutput the status is completed exactly when the
\* Validation stage is completed and a product is present, partial exactly
\* when it is not completed and Vision or Content is completed, and failed
\* in every other case
C5_OverallStatusRule ==
    Returned(run) =>
        LET out == PipelineOutput(run)
            full == out.validation.status = "completed" /\ out.product # Undef
            some == \/ out.visionAnalysis.status = "completed"
                    \/ out.contentGeneration.status = "completed"
        IN /\ out.status \in {"completed", "partial", "failed"}
           /\ out.status = "completed" <=> full
           /\ out.status = "partial" <=> (~full /\ some)
           /\ out.status = "failed" <=> (~full /\ ~some)

\* Vision completed and Content failed: a partial result
C5_Witness ==
    /\ Returned(run)
    /\ run.visionResult.status = "completed"
    /\ run.contentResult.status = "failed"
    /\ run.status = "partial"

\* the stage is running or has run
ContentStarted(r) ==
    \/ r.pc \in {"content_begin", "content_call", "content_end"}
    \/ r.contentResult.status \in {"completed", "failed"}

ValidationStarted(r) == r.validationResult.status \in {"completed", "failed"}

HasData(result) == result.status = "completed" /\ result.data # Undef

\* C6: the Content stage is started only when Vision has completed with
\* data, the Validation stage only when Vision and Content have completed
\* with data; when Vision has failed the run ends with Content skipped and
\* Validation not run
C6_PrerequisitesAndSkippedContent ==
    /\ ContentStarted(ref) => HasData(ref.visionResult)
    /\ ValidationStarted(ref) =>
           HasData(ref.visionResult) /\ HasData(ref.contentResult)
    /\ (Returned(ref) /\ ref.visionResult.status = "failed") =>
           /\ ref.contentResult.status = "skipped"
           /\ ref.validationResult.status = "pending"

\* C7: runPipeline never throws; what fails inside a stage is that stage's
\* failed status and error message in the PipelineOutput
C7_NeverThrows ==
    /\ run.pc # "thrown"
    /\ Returned(run) =>
           \A result \in {run.visionResult, run.contentResult, run.validationResult} :
               result.status = "failed" => result.error.t = "string"

\* C8: a run ends the same with or without an observer, whatever the
\* observer does: when the run without one has returned, the run with one
\* has returned the same PipelineOutput
C8_ObserverChangesNothing ==
    Returned(ref) => Returned(run) /\ PipelineOutput(run) = PipelineOutput(ref)

-----------------------------------------------------------------------------
(* Stage claims *)

\* the stage was called on its own and has returned, its failover call
\* having returned the text of some provider
StageAnswered(entry) ==
    /\ run.entry = entry
    /\ run.pc = "returned"
    /\ run.fo.state = "returned"

\* C9: the Vision stage fails only when its failover call fails; when a
\* provider has returned text, whatever the text, the stage is completed,
\* with the defaults for what the text does not give: empty lists,
\* confidence 0.5, productType "Unknown Product"
C9_VisionCompletesOnAnyText ==
    /\ (run.entry = "runVisionStage" /\ run.pc = "returned"
            /\ run.visionResult.status = "failed") => run.fo.state = "thrown"
    /\ StageAnswered("runVisionStage") =>
           /\ run.visionResult.status = "completed"
           /\ LET data == run.visionResult.data
                  parsed == VisionParsed(run.fo.result.content)
              IN /\ data.productType.t = "string"
                 /\ ~Truthy(Get(parsed, "productType"))
                        => data.productType = Str("Unknown Product")
                 /\ \A f \in {"colors", "materials", "features", "suggestedCategories"} :
                        /\ IsArray(data[f])
                        /\ ~IsArray(Get(parsed, f)) => data[f] = Arr(<<>>)
                 /\ data.confidence.t = "number"
                 /\ Get(parsed, "confidence").t # "number"
                        => data.confidence = Num(50)

\* the text of the answer is not JSON
Malformed(text) == text.body = Garbage

StringFields ==
    {"name", "shortDescription", "longDescription", "htmlDescription",
     "seoTitle", "seoDescription"}

ListFields == {"keywords", "tags", "imageAlts"}

\* the attribute `key` is there exactly when `present`, and is `value` then
AttributeIs(attributes, key, present, value) ==
    IF present
    THEN key \in DOMAIN attributes.v /\ attributes.v[key] = value
    ELSE key \notin DOMAIN attributes.v

Within(text, max) == text.t = "string" /\ text.len <= max

\* C11: every ContentGeneration that leaves the Content stage has its short
\* description within 500 characters, its SEO title within 70 and its SEO
\* description within 160, however long the text the provider returned
C11_BoundedFieldsWithinLimits ==
    (run.pc = "returned" /\ run.contentResult.status = "completed") =>
        /\ Within(run.contentResult.data.shortDescription, ShortDescriptionMax)
        /\ Within(run.contentResult.data.seoTitle, SeoTitleMax)
        /\ Within(run.contentResult.data.seoDescription, SeoDescriptionMax)

\* the value of the fraction n/d lies in [0, 1]
InUnitInterval(x) == x.t = "number" /\ x.d > 0 /\ 0 <= x.n /\ x.n <= x.d

\* C12: the confidence of every VisionAnalysis of a completed Vision stage
\* lies in [0, 1]: 0 for a number below 0, 1 for a number above 1, the
\* number itself in between, and 0.5 for what is no number or is absent
C12_ConfidenceInUnitInterval ==
    (StageAnswered("runVisionStage") /\ run.visionResult.status = "completed") =>
        LET given == Get(VisionParsed(run.fo.result.content), "confidence")
            confidence == run.visionResult.data.confidence
        IN /\ InUnitInterval(confidence)
           /\ IF given.t # "number" THEN 2 * confidence.n = confidence.d
              ELSE IF given.n < 0 THEN confidence.n = 0
              ELSE IF given.n > given.d THEN confidence.n = confidence.d
              ELSE confidence = given

\* the provider gave a confidence of 1.5
C12_Witness ==
    /\ StageAnswered("runVisionStage")
    /\ run.visionResult.status = "completed"
    /\ Get(VisionParsed(run.fo.result.content), "confidence") = Num(150)
    /\ run.visionResult.data.confidence.n = run.visionResult.data.confidence.d

-----------------------------------------------------------------------------
(* Validation claims, about runValidationStage called by `run` *)

ValidationReturned == run.entry = "runValidationStage" /\ run.pc = "returned"

\* the stage returned a product
ProductReturned == ValidationReturned /\ run.finalProduct # Undef

\* exact arithmetic on fractions n/d, in lowest terms
RECURSIVE Gcd(_, _)
Gcd(a, b) == IF b = 0 THEN a ELSE Gcd(b, a % b)

Abs(n) == IF n < 0 THEN -n ELSE n

Lowest(x) ==
    LET g == Gcd(Abs(x.n), Abs(x.d))
    IN IF g = 0 THEN x ELSE Ratio(x.n \div g, x.d \div g)

Times(x, y) ==
    LET a == Lowest(x)
        b == Lowest(y)
        p == Lowest(Ratio(a.n, b.d))
        q == Lowest(Ratio(b.n, a.d))
    IN Lowest(Ratio(p.n * q.n, p.d * q.d))

Plus(x, y) == Lowest(Ratio(x.n * y.d + y.n * x.d, x.d * y.d))

\* C13: in every product the Validation stage returns for raw data without
\* a net price, net = gross / (1 + vatRate / 100) for the gross price and
\* the VAT rate of that product
C13_NetFromGrossAndVat ==
    (ProductReturned /\ ~Truthy(Get(RawDataOf(input), "priceNet"))) =>
        LET pricing == run.finalProduct.pricing
            divisor == Plus(Ratio(1, 1), Times(pricing.vatRate, Ratio(1, 100)))
        IN /\ pricing.net.d # 0
           /\ Times(pricing.net, divisor) = Lowest(pricing.gross)

\* gross 123 and a VAT rate of 23 gave net 100
C13_Witness ==
    /\ ProductReturned
    /\ ~Truthy(Get(RawDataOf(input), "priceNet"))
    /\ run.finalProduct.pricing.gross = Num(12300)
    /\ run.finalProduct.pricing.vatRate = Ratio(23, 1)
    /\ run.finalProduct.pricing.net.n = 100 * run.finalProduct.pricing.net.d

NonEmpty(x) == x.t = "string" /\ x.len >= 1

\* what the claim asks of the input: at least one image and valid URLs,
\* the five texts of the content non-empty, raw data absent or as the input
\* schema has it
RequiredFieldsPresent ==
    LET content == run.contentResult.data
    IN /\ Len(input.images) >= 1
       /\ \A i \in 1..Len(input.images) : input.images[i].url \in ValidUrls
       /\ NonEmpty(content.name)
       /\ NonEmpty(content.shortDescription)
       /\ NonEmpty(content.longDescription)
       /\ NonEmpty(content.seoTitle)
       /\ NonEmpty(content.seoDescription)
       /\ ConformsToRawDataSchema(input.rawData)

ValidationFailedWithoutProduct ==
    run.validationResult.status = "failed" /\ run.finalProduct = Undef

ValidationCompletedWithProduct ==
    run.validationResult.status = "completed" /\ run.finalProduct # Undef

PriceAndCurrencyUsable ==
    LET priceGross == Get(RawDataOf(input), "priceGross")
        currency == Get(RawDataOf(input), "currency")
    IN /\ priceGross.t = "undefined" \/ priceGross.n * 100 >= priceGross.d
       /\ ~Truthy(currency) \/ (currency.t = "string" /\ currency.len = 3)

FieldIf(violated, path) == IF violated THEN {path} ELSE {}

\* the fields of a merged product that do not satisfy UnifiedProductSchema,
\* by their paths
ViolatedFields(product) ==
    FieldIf(~(NonEmpty(product.name) /\ product.name.len <= 255), "name")
    \cup FieldIf(~(NonEmpty(product.description.short)
                   /\ product.description.short.len <= ShortDescriptionMax),
                 "description.short")
    \cup FieldIf(~NonEmpty(product.description.long), "description.long")
    \cup FieldIf(~OptionalString(product.description.html), "description.html")
    \cup FieldIf(~(NonEmpty(product.seo.title)
                   /\ product.seo.title.len <= SeoTitleMax), "seo.title")
    \cup FieldIf(~(NonEmpty(product.seo.description)
                   /\ product.seo.description.len <= SeoDescriptionMax),
                 "seo.description")
    \cup FieldIf(~IsArray(product.seo.keywords), "seo.keywords")
    \cup FieldIf(~Positive(product.pricing.gross), "pricing.gross")
    \cup FieldIf(~Positive(product.pricing.net), "pricing.net")
    \cup FieldIf(~(product.pricing.currency.t = "string"
                   /\ product.pricing.currency.len = 3), "pricing.currency")
    \cup FieldIf(~(/\ product.pricing.vatRate.t = "number"
                   /\ 0 <= product.pricing.vatRate.n
                   /\ product.pricing.vatRate.n <= 100 * product.pricing.vatRate.d),
                 "pricing.vatRate")
    \cup (IF product.attributes.t # "object" THEN {"attributes"}
          ELSE {"attributes." \o k :
                   k \in {x \in DOMAIN product.attributes.v :
                             product.attributes.v[x].t # "string"}})
    \cup FieldIf(~IsArray(product.categories), "categories")
    \cup FieldIf(Len(product.images) = 0, "images")
    \cup {"images." \o ToString(i - 1) \o ".url" :
             i \in {j \in 1..Len(product.images) :
                       product.images[j].url \notin ValidUrls}}
    \cup FieldIf(~OptionalString(product.identifiers.ean), "identifiers.ean")
    \cup FieldIf(~OptionalString(product.identifiers.sku), "identifiers.sku")
    \cup FieldIf(~(IsInteger(product.stock.quantity)
                   /\ product.stock.quantity.n >= 0), "stock.quantity")
    \cup FieldIf(~OptionalString(product.brand), "brand")
    \cup FieldIf(~OptionalString(product.manufacturer), "manufacturer")
    \cup FieldIf(~isValidCondition(product.condition), "condition")
    \cup FieldIf(~(product.weight.t = "undefined" \/ Positive(product.weight)),
                 "weight")
    \cup FieldIf(~IsArray(product.tags), "tags")

\* the product merged from the inputs of the stage
MergedProduct ==
    buildUnifiedProduct(input, run.visionResult.data, run.contentResult.data)

\* errors[k] is the message of the field: its path, then a reason
MessageOf(errors, k, field) ==
    StartsWith(errors[k], field \o ": ") /\ Len(errors[k]) > Len(field) + 2

\* C15: when the merged product violates the schema the Validation stage
\* returns failed with isValid false, no product, and one error message,
\* path and reason, for each violated field and no other message; it
\* returns a product only with status completed and isValid true
C15_OneMessagePerViolatedField ==
    ValidationReturned =>
        /\ (~BuildThrows(run.contentResult.data)
            /\ ViolatedFields(MergedProduct) # {}) =>
               LET violated == ViolatedFields(MergedProduct)
                   errors == run.validationResult.data.errors
               IN /\ run.validationResult.status = "failed"
                  /\ run.validationResult.data.isValid = FALSE
                  /\ run.finalProduct = Undef
                  /\ Len(errors) = Cardinality(violated)
                  /\ \A field \in violated :
                         \E k \in 1..Len(errors) : MessageOf(errors, k, field)
        /\ run.finalProduct # Undef =>
               /\ run.validationResult.status = "completed"
               /\ run.validationResult.data.isValid = TRUE

\* three fields violated, an image URL, the brand and the attribute made of
\* the brand, and three messages
C15_Witness ==
    /\ ValidationReturned
    /\ ~BuildThrows(run.contentResult.data)
    /\ ViolatedFields(MergedProduct) = {"images.1.url", "brand", "attributes.Marka"}
    /\ Len(run.validationResult.data.errors) = 3
    /\ run.finalProduct = Undef

-----------------------------------------------------------------------------
(* Pipeline claims on what a failed or skipped stage leaves behind *)

\* a stage result that is completed with data is not written again
StageDataKept ==
    /\ HasData(run.visionResult) => run'.visionResult = run.visionResult
    /\ HasData(run.contentResult) => run'.contentResult = run.contentResult

\* C16: the data of a completed stage stays as it is when a later stage
\* fails: a PipelineOutput with Content failed carries the VisionAnalysis,
\* one with Validation failed carries the VisionAnalysis and the
\* ContentGeneration, and its overall status is partial
C16_EarlierStageDataKept ==
    /\ [](Returned(run) =>
            LET out == PipelineOutput(run)
            IN /\ out.contentGeneration.status = "failed" =>
                      HasData(out.visionAnalysis) /\ out.status = "partial"
               /\ out.validation.status = "failed" =>
                      /\ HasData(out.visionAnalysis)
                      /\ HasData(out.contentGeneration)
                      /\ out.status = "partial")
    /\ [][StageDataKept]_vars

\* Validation failed, and the output has the data of Vision and Content
C16_Witness ==
    /\ Returned(run)
    /\ run.validationResult.status = "failed"
    /\ HasData(run.visionResult)
    /\ HasData(run.contentResult)
    /\ run.status = "partial"

\* C17: a PipelineOutput with overall status failed has an errors list with
\* at least one entry, whatever the options are
C17_FailedOutputHasErrors ==
    (Returned(run) /\ PipelineOutput(run).status = "failed") =>
        Len(PipelineOutput(run).errors) >= 1

\* the run is inside the Vision stage, its image fetch or its provider call
InVisionStage == run.pc \in {"fetch", "vision_begin", "vision_call", "vision_end"}

\* the run is inside the Content stage or its provider call
InContentStage == run.pc \in {"content_begin", "content_call", "content_end"}

\* C18: a stage skipped by option makes no upstream call and ends skipped:
\* with skipVision the Vision stage, with skipContent the Content stage
C18_SkippedByOptionEndsSkipped ==
    /\ options.skipVision =>
           /\ ~InVisionStage
           /\ Returned(run) => PipelineOutput(run).visionAnalysis.status = "skipped"
    /\ options.skipContent =>
           /\ ~InContentStage
           /\ Returned(run) =>
                  PipelineOutput(run).contentGeneration.status = "skipped"

-----------------------------------------------------------------------------
(* Registry claims *)

\* the providers whose API key is not in the environment
Unconfigured == ProviderType \ env

\* C19: a provider without a credential is not in the list a failover call
\* iterates, is not called and is named in no error; the list is the one of
\* a registry that knows the configured providers only
C19_UnconfiguredProvidersInvisible ==
    CallMade =>
        LET fo == run.fo
        IN /\ fo.list = SortByPriority(Usable(fo.cap))
           /\ \A t \in Unconfigured :
                  /\ \A k \in 1..Len(fo.list) : fo.list[k] # t
                  /\ t \notin Attempted
                  /\ \A k \in 1..Len(fo.errors) :
                         ~StartsWith(fo.errors[k], t \o ": ")
           /\ (fo.state = "thrown" /\ Usable(fo.cap) # {}) =>
                  Len(fo.errors) = Cardinality(Usable(fo.cap))

\* two of the six providers are configured, both were called and failed
C19_Witness ==
    /\ run.fo.state = "thrown"
    /\ Cardinality(env) = 2
    /\ Cardinality(Unconfigured) = 4
    /\ Len(run.fo.calls) = 2
    /\ Len(run.fo.errors) = 2

-----------------------------------------------------------------------------
(* Two pipeline runs of one process, reduced to their failover calls: the  *)
(* analyzeImages call of the Vision stage, then the generateContent call   *)
(* of the Content stage.  getAvailableAdapters has no await, so each       *)
(* lookup of the registry is one step; the runs interleave at the awaits   *)
(* of the adapter calls.                                                   *)

InitRegistry ==
    /\ env \in Environments(MaxConfigured)
    /\ adapters = {}
    /\ constructed = NoneConstructed
    /\ run = NewRun("analyzeImages", "vision_begin", "none")
    /\ ref = run
    /\ input = NoInput
    /\ options = NoOptions

\* one of the two runs takes a step, the other stays where it is
Alone(first, pc, Step(_)) ==
    IF first THEN run.pc = pc /\ run' = Step(run) /\ ref' = ref
    ELSE ref.pc = pc /\ ref' = Step(ref) /\ run' = run

\* the run goes on from its Vision stage to the call of its Content stage
NextFailoverCall(r) ==
    [r EXCEPT !.entry = "generateContent", !.fo = IdleCall, !.pc = "content_begin"]

RegistryVisionLookup ==
    /\ \E first \in BOOLEAN : Alone(first, "vision_begin", BeginAnalyzeImages)
    /\ adapters' = adaptersAfterLookup
    /\ constructed' = constructedAfterLookup
    /\ UNCHANGED <<env, input, options>>

RegistryVisionAttemptEnds ==
    /\ \E first \in BOOLEAN, ok \in BOOLEAN :
          Alone(first, "vision_call",
                LAMBDA r : EndAttempt(r,
                               IF ok THEN AttemptSucceeds(r.fo, Text("bare", VisionFull))
                               ELSE AttemptFails(r.fo, AdapterError("rate_limit")),
                               "vision_end"))
    /\ UNCHANGED <<env, adapters, constructed, input, options>>

RegistryNextCall ==
    /\ \E first \in BOOLEAN : Alone(first, "vision_end", NextFailoverCall)
    /\ UNCHANGED <<env, adapters, constructed, input, options>>

RegistryContentLookup ==
    /\ \E first \in BOOLEAN : Alone(first, "content_begin", BeginGenerateContent)
    /\ adapters' = adaptersAfterLookup
    /\ constructed' = constructedAfterLookup
    /\ UNCHANGED <<env, input, options>>

RegistryContentAttemptEnds ==
    /\ \E first \in BOOLEAN, ok \in BOOLEAN :
          Alone(first, "content_call",
                LAMBDA r : EndAttempt(r,
                               IF ok THEN AttemptSucceeds(r.fo, Text("bare", ContentFull))
                               ELSE AttemptFails(r.fo, AdapterError("rate_limit")),
                               "content_end"))
    /\ UNCHANGED <<env, adapters, constructed, input, options>>

NextRegistry ==
    \/ RegistryVisionLookup
    \/ RegistryVisionAttemptEnds
    \/ RegistryNextCall
    \/ RegistryContentLookup
    \/ RegistryContentAttemptEnds

SpecRegistry == InitRegistry /\ [][NextRegistry]_vars

\* the instances the failover call of a run holds, by provider type
Held(r) == {<<r.fo.list[k], r.fo.instances[k]>> : k \in 1..Len(r.fo.list)}

\* C20: for each provider at most one adapter instance is ever made, and
\* every lookup that yields an adapter of the provider yields that one
\* instance, however the failover calls of two concurrent runs interleave
C20_OneInstancePerProvider ==
    /\ \A t \in ProviderType : constructed[t] <= 1
    /\ \A h \in Held(run) \cup Held(ref) : h[2] = 1 /\ constructed[h[1]] = 1
    /\ \A t \in adapters : constructed[t] = 1

\* both runs looked the registry up before either finished its first call,
\* and both hold the one instance of the provider
C20_Witness ==
    /\ run.pc = "vision_call"
    /\ ref.pc = "vision_call"
    /\ Held(run) = {<<"google", 1>>}
    /\ Held(ref) = {<<"google", 1>>}
    /\ constructed["google"] = 1

-----------------------------------------------------------------------------
(* Claims on the order of the upstream calls of one run *)

\* C21: a run has one provider call in flight at most: the attempt on the
\* adapter at place i of the list is in flight only after the attempts on
\* the i - 1 adapters before it have all ended in failure, and a Content
\* provider call only after the Vision stage has completed and its failover
\* call is over
C21_OneProviderCallAtATime ==
    /\ run.fo.state = "attempting" =>
           /\ run.fo.i \in 1..Len(run.fo.list)
           /\ Len(run.fo.calls) = run.fo.i - 1
           /\ \A k \in 1..Len(run.fo.calls) :
                  /\ run.fo.calls[k].provider = run.fo.list[k]
                  /\ ~run.fo.calls[k].ok
    /\ (run.entry = "runPipeline" /\ InContentStage) =>
           /\ HasData(run.visionResult)
           /\ run.fo.cap # "vision"

\* the second Content provider is in flight, after the first one failed
C21_Witness ==
    /\ run.entry = "runPipeline"
    /\ run.pc = "content_call"
    /\ run.fo.state = "attempting"
    /\ run.fo.i = 2
    /\ Len(run.fo.calls) = 1
    /\ ~run.fo.calls[1].ok
    /\ HasData(run.visionResult)

-----------------------------------------------------------------------------
(* One failover call with the transport of each adapter call: the adapters *)
(* of services/ai/adapters and BaseAdapter.fetchWithTimeout.               *)

\* what a provider may do with a request: answer (in time or late), send
\* nothing at all, send the head of a response and then stall in its body,
\* or refuse the connection
Upstreams == {"answers", "silent", "stalls", "unreachable"}

\* what an adapter throws once it has read the body: !response.ok, or a
\* body without the expected fields
BodyFailures == {"rate_limit", "quota", "malformed"}

\* fetchWithTimeout lines 69-76: the timer is armed and fetch is awaited
StartFetch(r, upstream) ==
    [r EXCEPT !.fo.wire = "waiting", !.fo.upstream = upstream]

\* lines 77-79: fetch resolves with the response, and `finally` clears the
\* timer; the adapter goes on to await response.json() or response.text()
ResponseReceived(r) == [r EXCEPT !.fo.wire = "body"]

\* the adapter call in flight ends, and with it its transport
EndAdapterCall(r, fo, done) ==
    EndAttempt(r, [fo EXCEPT !.wire = "none", !.upstream = "none"], done)

\* where the failover call of the capability hands on to
DoneOf(pc) == IF pc = "vision_call" THEN "vision_end" ELSE "content_end"

\* the text a provider answers with
AnswerOf(pc) ==
    IF pc = "vision_call" THEN Text("bare", VisionFull) ELSE Text("bare", ContentFull)

CallPcs == {"vision_call", "content_call"}

InitAdapter ==
    /\ \/ InitCall(Environments(MaxConfigured), "generateContent",
                   "content_begin", "none")
       \/ InitCall(Environments(MaxConfigured), "analyzeImages",
                   "vision_begin", "none")
    /\ input = NoInput
    /\ options = NoOptions

AdapterFetch ==
    /\ \E pc \in CallPcs, upstream \in Upstreams :
          /\ run.fo.state = "attempting"
          /\ run.fo.wire = "none"
          /\ Both(pc, LAMBDA r : StartFetch(r, upstream))
    /\ UNCHANGED <<env, adapters, constructed, input, options>>

\* fetch rejects at once: no connection
FetchRejects ==
    /\ \E pc \in CallPcs :
          /\ run.fo.wire = "waiting"
          /\ run.fo.upstream = "unreachable"
          /\ Both(pc, LAMBDA r : EndAdapterCall(r,
                      AttemptFails(r.fo, Error("fetch failed")), DoneOf(pc)))
    /\ UNCHANGED <<env, adapters, constructed, input, options>>

\* the head of the response arrives before the timer is due
ResponseArrives ==
    /\ \E pc \in CallPcs :
          /\ run.fo.wire = "waiting"
          /\ run.fo.upstream \in {"answers", "stalls"}
          /\ Both(pc, ResponseReceived)
    /\ UNCHANGED <<env, adapters, constructed, input, options>>

\* line 70: the timer is due while fetch is pending; controller.abort()
\* cancels the transport and fetch rejects
TimerFires ==
    /\ \E pc \in CallPcs :
          /\ run.fo.wire = "waiting"
          /\ run.fo.upstream # "unreachable"
          /\ Both(pc, LAMBDA r : EndAdapterCall(r,
                      AttemptFails(r.fo, AdapterError("transport")), DoneOf(pc)))
    /\ UNCHANGED <<env, adapters, constructed, input, options>>

\* the body has arrived whole: the adapter returns its content, or throws
BodyRead ==
    /\ \E pc \in CallPcs :
          /\ run.fo.wire = "body"
          /\ run.fo.upstream = "answers"
          /\ \/ Both(pc, LAMBDA r : EndAdapterCall(r,
                         AttemptSucceeds(r.fo, AnswerOf(pc)), DoneOf(pc)))
             \/ \E class \in BodyFailures :
                   Both(pc, LAMBDA r : EndAdapterCall(r,
                            AttemptFails(r.fo, AdapterError(class)), DoneOf(pc)))
    /\ UNCHANGED <<env, adapters, constructed, input, options>>

\* the runtime or the network ends a connection whose body has stalled;
\* nothing in the code makes this happen
TransportGivesUp ==
    /\ \E pc \in CallPcs :
          /\ run.fo.wire = "body"
          /\ run.fo.upstream = "stalls"
          /\ Both(pc, LAMBDA r : EndAdapterCall(r,
                      AttemptFails(r.fo, Error("terminated")), DoneOf(pc)))
    /\ UNCHANGED <<env, adapters, constructed, input, options>>

\* the steps the code and its timers take by themselves
AdapterProgress ==
    \/ AnalyzeImages
    \/ GenerateContent
    \/ AdapterFetch
    \/ FetchRejects
    \/ ResponseArrives
    \/ TimerFires
    \/ BodyRead

NextAdapter == AdapterProgress \/ TransportGivesUp

\* the event loop runs what can run and a timer that is due fires
SpecAdapter == InitAdapter /\ [][NextAdapter]_vars /\ WF_vars(AdapterProgress)

\* C22: every adapter call ends, with a result or a failure, whatever the
\* upstream does, and so every failover call ends, returned or thrown
C22_EveryAdapterCallEnds ==
    /\ (run.fo.wire # "none") ~> (run.fo.wire = "none")
    /\ <>(run.fo.state \in {"returned", "thrown"})

-----------------------------------------------------------------------------
(* Claims on the notifications of a run with an observer *)

StageIds == <<"vision", "content", "validation">>

\* the notifications of one stage, in the order of their emission
NotesOf(stage) == SelectSeq(run.notes, LAMBDA n : n.stage = stage)

\* the place of a stage in the order of the stages
PlaceOf(stage) == CHOOSE k \in 1..Len(StageIds) : StageIds[k] = stage

\* the stage has been started: it was announced as running, or it has ended
Started(stage) ==
    \/ Len(NotesOf(stage)) > 0
    \/ /\ stage = "vision"
       /\ run.visionResult.status \in {"completed", "failed"}
    \/ /\ stage = "content"
       /\ run.contentResult.status \in {"completed", "failed"}
    \/ /\ stage = "validation"
       /\ run.validationResult.status \in {"completed", "failed"}

RunEnded == run.pc \in {"returned", "thrown"}

\* C23: in a run with an observer every started stage has emitted, when
\* the run ends, exactly two notifications, running and then completed or
\* failed; no stage is notified before the final notification of an earlier
\* one, and the progress values increase strictly within 0..100
C23_TwoNotificationsPerStage ==
    (run.entry = "runPipeline" /\ run.onProgress # "none") =>
        /\ \A k \in 1..Len(run.notes) :
               /\ run.notes[k].progress \in 0..100
               /\ k > 1 => run.notes[k - 1].progress < run.notes[k].progress
               /\ \A j \in 1..(k - 1) :
                      \/ run.notes[j].stage = run.notes[k].stage
                      \/ /\ PlaceOf(run.notes[j].stage) < PlaceOf(run.notes[k].stage)
                         /\ \E m \in (j + 1)..(k - 1) :
                                /\ run.notes[m].stage = run.notes[j].stage
                                /\ run.notes[m].status \in {"completed", "failed"}
                      \/ /\ PlaceOf(run.notes[j].stage) < PlaceOf(run.notes[k].stage)
                         /\ run.notes[j].status \in {"completed", "failed"}
        /\ \A s \in 1..Len(StageIds) :
               LET notes == NotesOf(StageIds[s])
               IN /\ Len(notes) <= 2
                  /\ Len(notes) >= 1 => notes[1].status = "running"
                  /\ Len(notes) = 2 => notes[2].status \in {"completed", "failed"}
                  /\ (RunEnded /\ Started(StageIds[s])) => Len(notes) = 2

-----------------------------------------------------------------------------
(* Claims on the fields of the product *)

\* where a brand may come from, first the source that takes precedence
BrandSources ==
    <<Get(RawDataOf(input), "brand"),
      run.visionResult.data.detectedBrand,
      AttributeOf(run.contentResult.data, "Marka"),
      AttributeOf(run.contentResult.data, "Brand")>>

\* the sources that give a brand, by their places
GivenBrands == {k \in 1..Len(BrandSources) : NonEmpty(BrandSources[k])}

\* C24: the brand of a returned product is the raw-data brand when that is
\* non-empty, else the brand the vision detected, else the attribute
\* 'Marka', else the attribute 'Brand' of the content; it is absent only
\* when none of the four gives a brand
C24_BrandByPrecedence ==
    ProductReturned =>
        IF GivenBrands = {} THEN run.finalProduct.brand = Undef
        ELSE LET first == CHOOSE k \in GivenBrands : \A j \in GivenBrands : k <= j
             IN run.finalProduct.brand = BrandSources[first]

\* the attribute 'Brand' gives the brand, where 'Marka' is empty and neither
\* the raw data nor the vision has one
C24_Witness ==
    /\ ProductReturned
    /\ GivenBrands = {4}
    /\ AttributeOf(run.contentResult.data, "Marka") = Str("")
    /\ run.finalProduct.brand = Str("Brandex")

-----------------------------------------------------------------------------
(* The shape of a PipelineOutput *)

StageStatuses == {"pending", "skipped", "completed", "failed"}

\* C25: in every PipelineOutput no stage has the status running; the Vision
\* stage carries data exactly when its status is completed, the Content
\* stage carries data exactly when its status is completed, and a product
\* is present exactly when the Validation stage's status is completed
C25_DataExactlyWhenCompleted ==
    Returned(run) =>
        LET out == PipelineOutput(run)
        IN /\ out.visionAnalysis.status \in StageStatuses
           /\ out.contentGeneration.status \in StageStatuses
           /\ out.validation.status \in StageStatuses
           /\ out.visionAnalysis.data # Undef
                  <=> out.visionAnalysis.status = "completed"
           /\ out.contentGeneration.data # Undef
                  <=> out.contentGeneration.status = "completed"
           /\ out.product # Undef <=> out.validation.status = "completed"

\* Vision and Content completed with their data, Validation failed: the
\* output has both data and no product
C25_Witness ==
    /\ Returned(run)
    /\ HasData(run.visionResult)
    /\ HasData(run.contentResult)
    /\ run.validationResult.status = "failed"
    /\ run.finalProduct = Undef

\* the stages of the output that ended failed
FailedStages(out) ==
    {stage \in {StageIds[k] : k \in DOMAIN StageIds} :
        (CASE stage = "vision" -> out.visionAnalysis
           [] stage = "content" -> out.contentGeneration
           [] OTHER -> out.validation).status = "failed"}

\* C26: in every run at most one stage ends with the status failed, and
\* errors has one entry for each failed stage: none (the list is absent)
\* when no stage failed, exactly one otherwise
C26_OneErrorPerFailedStage ==
    Returned(run) =>
        LET out == PipelineOutput(run)
        IN /\ Cardinality(FailedStages(out)) <= 1
           /\ Len(out.errors) = Cardinality(FailedStages(out))

\* the Content stage failed after a completed Vision stage: one entry
C26_Witness ==
    /\ Returned(run)
    /\ FailedStages(PipelineOutput(run)) = {"content"}
    /\ Len(run.errors) = 1

-----------------------------------------------------------------------------
(* Provider text without descriptions, on the generic content path *)

\* the text decodes to no object, or to an object that carries neither
\* description
NoDescriptions(content) ==
    LET parsed == ContentParsed(content)
    IN /\ Get(parsed, "shortDescription") = Undef
       /\ Get(parsed, "longDescription") = Undef

\* the generic Content stage of runPipeline ends on such a text
EndsOnNoDescriptions ==
    /\ run.entry = "runPipeline"
    /\ run.pc = "content_end"
    /\ ~UsesViaMall
    /\ run.fo.state = "returned"
    /\ NoDescriptions(run.fo.result.content)

\* C27: on the generic content path, whenever the provider text cannot be
\* decoded into an object with descriptions, the Content stage completes
\* with an empty short and an empty long description, the Validation stage
\* then fails on those two fields, and the run ends partial without a
\* product, never completed
C27_NoDescriptionsEndsPartial ==
    /\ [][EndsOnNoDescriptions =>
             /\ HasData(run'.contentResult)
             /\ run'.contentResult.data.shortDescription = Str("")
             /\ run'.contentResult.data.longDescription = Str("")]_vars
    /\ [](Returned(run) /\ ~UsesViaMall /\ HasData(run.contentResult)
             /\ NoDescriptions(run.contentResult.data.rawResponse)
          => LET out == PipelineOutput(run)
                 errors == out.validation.data.errors
             IN /\ out.validation.status = "failed"
                /\ \E k \in DOMAIN errors : MessageOf(errors, k, "description.short")
                /\ \E k \in DOMAIN errors : MessageOf(errors, k, "description.long")
                /\ out.status = "partial"
                /\ out.product = Undef)

\* every text without descriptions other than the JSON value null: the
\* stage completes with empty descriptions and the run ends partial
C27_ExceptNull ==
    /\ [][(EndsOnNoDescriptions /\ CanGet(ContentParsed(run.fo.result.content))) =>
             /\ HasData(run'.contentResult)
             /\ run'.contentResult.data.shortDescription = Str("")
             /\ run'.contentResult.data.longDescription = Str("")]_vars
    /\ [](Returned(run) /\ ~UsesViaMall /\ HasData(run.contentResult)
             /\ NoDescriptions(run.contentResult.data.rawResponse)
          => LET out == PipelineOutput(run)
                 errors == out.validation.data.errors
             IN /\ out.validation.status = "failed"
                /\ \E k \in DOMAIN errors : MessageOf(errors, k, "description.short")
                /\ \E k \in DOMAIN errors : MessageOf(errors, k, "description.long")
                /\ out.status = "partial"
                /\ out.product = Undef)

\* such a run has returned
C27_Reached ==
    /\ Returned(run) /\ ~UsesViaMall /\ HasData(run.contentResult)
    /\ NoDescriptions(run.contentResult.data.rawResponse)
    /\ run.status = "partial"

-----------------------------------------------------------------------------
(* runPipeline with skipVision *)

\* C28: with skipVision set, runPipeline fetches no image and calls no
\* provider, runs neither the Content nor the Validation stage, and returns
\* the overall status failed without a product, whatever the input and the
\* other options are
C28_SkipVisionEndsFailed ==
    (run.entry = "runPipeline" /\ options.skipVision) =>
        /\ run.pc \in {"start", "stage2", "stage3", "finish", "returned"}
        /\ run.fo = IdleCall
        /\ adapters = {}
        /\ run.notes = <<>>
        /\ run.contentResult.status \in {"pending", "skipped"}
        /\ run.validationResult.status = "pending"
        /\ Returned(run) =>
               /\ PipelineOutput(run).status = "failed"
               /\ PipelineOutput(run).product = Undef

\* a run with skipVision has returned, with an observer that throws when
\* it is called and with providers configured
C28_Witness ==
    /\ options.skipVision
    /\ Returned(run)
    /\ run.onProgress = "throws"
    /\ env # {}
    /\ run.status = "failed"

-----------------------------------------------------------------------------
(* Pricing of the product against the raw data *)

\* C29: the product's pricing.vatRate is the raw-data vatRate whenever the
\* raw data supplies one (0 included) and 23 when it supplies none;
\* likewise pricing.gross is the raw-data priceGross whenever one is supplied
C29_PricingFromRawData ==
    ProductReturned =>
        LET rawData == RawDataOf(input)
            vatRate == Get(rawData, "vatRate")
            priceGross == Get(rawData, "priceGross")
            pricing == run.finalProduct.pricing
        IN /\ vatRate # Undef => pricing.vatRate = vatRate
           /\ vatRate = Undef => pricing.vatRate = Ratio(23, 1)
           /\ priceGross # Undef => pricing.gross = priceGross

\* every raw-data VAT rate other than 0 is the product's, and every
\* raw-data gross price
C29_ExceptZeroVat ==
    ProductReturned =>
        LET rawData == RawDataOf(input)
            vatRate == Get(rawData, "vatRate")
            priceGross == Get(rawData, "priceGross")
            pricing == run.finalProduct.pricing
        IN /\ Truthy(vatRate) => pricing.vatRate = vatRate
           /\ ~Truthy(vatRate) => pricing.vatRate = Ratio(23, 1)
           /\ priceGross # Undef => pricing.gross = priceGross

\* a product of raw data with a VAT rate and a gross price of its own
C29_Reached ==
    /\ ProductReturned
    /\ Get(RawDataOf(input), "vatRate") = Ratio(23, 1)
    /\ run.finalProduct.pricing.gross = Num(12300)

-----------------------------------------------------------------------------
(* Images of the product *)

\* C30: every returned product has one image for each input image, in the
\* order of the input: image i has the URL of input image i, the position
\* i and a non-empty alt text, which is the Content stage's alt text of
\* index i when that is non-empty and 'Product image i+1' otherwise
C30_OneImagePerInputImage ==
    ProductReturned =>
        LET images == run.finalProduct.images
            alts == run.contentResult.data.imageAlts.v
        IN /\ Len(images) = Len(input.images)
           /\ \A k \in 1..Len(images) :
                  LET i == k - 1
                  IN /\ images[k].url = input.images[k].url
                     /\ images[k].position = i
                     /\ images[k].alt # ""
                     /\ images[k].alt =
                            IF k <= Len(alts) /\ alts[k] # "" THEN alts[k]
                            ELSE "Product image " \o ToString(i + 1)

\* two images, the first with an empty alt text from the Content stage and
\* the second with an alt text of its own
C30_Witness ==
    /\ ProductReturned
    /\ Len(input.images) = 2
    /\ run.contentResult.data.imageAlts.v = <<"", "Chair side">>
    /\ run.finalProduct.images[1].alt = "Product image 1"
    /\ run.finalProduct.images[2].alt = "Chair side"

====
